---- MODULE Spec2Model ----
(***************************************************************************)
(* A model of wanderer-sde: the conversion run of cmd/sdeconvert (parse,   *)
(* transform, validate, write), the stargate deduplication of the parser,  *)
(* the transformer's sorting / enrichment / validation, and the security   *)
(* classifier.                                                             *)
(*                                                                         *)
(* The repository carries two revisions of the transformer side by side    *)
(* (transformer.go:1-238 narrows item data to ships, transformer.go:240-559*)
(* passes every type and group through).  The variable cfgVariant selects  *)
(* the revision: "ships" or "all".                                         *)
(*                                                                         *)
(* IDs (int64 in the source) are small naturals, 0 being Go's zero value.  *)
(* Security values (float64 in the source) are exact decimals, held as     *)
(* integers counting ten-thousandths: 9459 stands for 0.9459.              *)
(***************************************************************************)
EXTENDS Integers, Sequences, FiniteSets, TLC

VARIABLES
    cfgVariant,        \* which revision of the transformer runs: "ships" | "all"
    sde,               \* the SDE directory: the YAML maps, keyed by integer ID
    pc,                \* position of runConversion
    parseResult,       \* parser.ParseResult, or None
    convertedData,     \* models.ConvertedData, or None
    validationResult,  \* models.ValidationResult, or None
    written,           \* sequence of the files WriteAll has written in this run
    copied,            \* TRUE once CopyPassthroughFiles has been called
    runErr,            \* the error runConversion returns ("" for nil)
    secIn, secOut,     \* argument and result of one GetTrueSecurity call: <<>> or <<x>>
    vIn, vOut,         \* lengths handed to one Validate call and its result: <<>> or <<x>>
    gIn, gOut,         \* slices handed to one call of bounds.go and as it left them: <<>> or <<x>>
    stages             \* the stages the run has executed so far, in order

vars == <<cfgVariant, sde, pc, parseResult, convertedData, validationResult,
          written, copied, runErr, secIn, secOut, vIn, vOut, gIn, gOut, stages>>

None == "none"

-----------------------------------------------------------------------------
(* Bounds of the model.                                                    *)

MaxID == 2        \* region, constellation, solar system, type, group IDs: 1..MaxID
MaxGates == 2     \* stargate records in mapStargates.yaml
SecLimit == 12000 \* raw security values range over -SecLimit..SecLimit (1.2)
MaxSystems == 2   \* solar systems handed to one call of bounds.go

\* Ten-thousandths: the resolution of the raw security values of the model.
SecScale == 100 * 100

-----------------------------------------------------------------------------
(* Generic helpers: Go slices are sequences, Go maps are functions.        *)

Range(s) == { s[i] : i \in DOMAIN s }

\* Every sequence that lists the elements of S once.
RECURSIVE Orders(_)
Orders(S) ==
    IF S = {} THEN {<<>>}
    ELSE UNION { { <<x>> \o o : o \in Orders(S \ {x}) } : x \in S }

\* Every order in which `for k := range m` may visit the keys of a map.
MapOrders(m) == Orders(DOMAIN m)

\* The sorted arrangements of the elements s[i], i \in I: each starts with an
\* element that no other one is less than.
RECURSIVE SortedFrom(_, _, _)
SortedFrom(s, I, less) ==
    IF I = {} THEN {<<>>}
    ELSE UNION { { <<s[i]>> \o t : t \in SortedFrom(s, I \ {i}, less) }
                 : i \in { k \in I : \A j \in I : <<s[j], s[k]>> \notin less } }

\* sort.Slice(s, less): not stable, so every rearrangement of s in which no
\* element is less than an earlier one is a possible outcome.  less is the
\* comparison function, given as the set of the pairs <<a, b>> with a before b.
SortSlice(s, less) == SortedFrom(s, DOMAIN s, less)

Min2(a, b) == IF a < b THEN a ELSE b
Max2(a, b) == IF a < b THEN b ELSE a

-----------------------------------------------------------------------------
(* internal/transformer/security.go, in exact decimal arithmetic.  A value *)
(* x of the source is the integer x * SecScale here; math.Floor, math.Ceil *)
(* and math.Round are applied to the exact quotient num / den.             *)

MathFloor(num, den) == num \div den
MathCeil(num, den) == -((-num) \div den)
\* math.Round rounds half away from zero.
MathRound(num, den) ==
    IF num >= 0 THEN (2 * num + den) \div (2 * den)
                ELSE -((2 * (-num) + den) \div (2 * den))

Tenth == SecScale \div 10
Hundredth == SecScale \div 100

\* Mutant of TruncateToTwoDigits: the digits after the second are cut off,
\* which moves a negative value toward zero.
TruncateToTwoDigits_TowardZero(value) ==
    IF value >= 0 THEN MathFloor(value * 100, SecScale) * Hundredth
                  ELSE MathCeil(value * 100, SecScale) * Hundredth

\* math.Floor(value*100) / 100
TruncateToTwoDigits(value) == MathFloor(value * 100, SecScale) * Hundredth

\* Mutant of GetTrueSecurity: the floor at one decimal place is not divided
\* by 10 again, so the number of tenths is taken for the value.
GetTrueSecurity_TenthsNotScaled(security) ==
    IF security > 0 /\ security < 5 * Hundredth
    THEN MathCeil(security * 10, SecScale) * Tenth
    ELSE LET truncated == TruncateToTwoDigits(security)
             floor == MathFloor(truncated * 10, SecScale) * SecScale
             diff == MathRound((truncated - floor) * 100, SecScale) * Hundredth
         IN  IF diff < 5 * Hundredth
             THEN floor
             ELSE MathCeil(truncated * 10, SecScale) * Tenth

\* Mutant of GetTrueSecurity: the two outcomes of the comparison of the
\* second decimal are exchanged.
GetTrueSecurity_BranchesSwapped(security) ==
    IF security > 0 /\ security < 5 * Hundredth
    THEN MathCeil(security * 10, SecScale) * Tenth
    ELSE LET truncated == TruncateToTwoDigits(security)
             floor == MathFloor(truncated * 10, SecScale) * Tenth
             diff == MathRound((truncated - floor) * 100, SecScale) * Hundredth
         IN  IF diff < 5 * Hundredth
             THEN MathCeil(truncated * 10, SecScale) * Tenth
             ELSE floor

\* Mutant of GetTrueSecurity: the special case of the low positive values is
\* missing.
GetTrueSecurity_NoLowBand(security) ==
    LET truncated == TruncateToTwoDigits(security)
        floor == MathFloor(truncated * 10, SecScale) * Tenth
        diff == MathRound((truncated - floor) * 100, SecScale) * Hundredth
    IN  IF diff < 5 * Hundredth
        THEN floor
        ELSE MathCeil(truncated * 10, SecScale) * Tenth

\* Mutant of GetTrueSecurity: a second decimal of exactly 5 still rounds down.
GetTrueSecurity_FiveRoundsDown(security) ==
    IF security > 0 /\ security < 5 * Hundredth
    THEN MathCeil(security * 10, SecScale) * Tenth
    ELSE LET truncated == TruncateToTwoDigits(security)
             floor == MathFloor(truncated * 10, SecScale) * Tenth
             diff == MathRound((truncated - floor) * 100, SecScale) * Hundredth
         IN  IF diff <= 5 * Hundredth
             THEN floor
             ELSE MathCeil(truncated * 10, SecScale) * Tenth

GetTrueSecurity(security) ==
    IF security > 0 /\ security < 5 * Hundredth
    THEN MathCeil(security * 10, SecScale) * Tenth
    ELSE LET truncated == TruncateToTwoDigits(security)
             floor == MathFloor(truncated * 10, SecScale) * Tenth
             diff == MathRound((truncated - floor) * 100, SecScale) * Hundredth
         IN  IF diff < 5 * Hundredth
             THEN floor
             ELSE MathCeil(truncated * 10, SecScale) * Tenth

-----------------------------------------------------------------------------
(* The parser.  Each Parse* reads one YAML map of the SDE directory,       *)
(* ranges over it in an arbitrary order, and sorts what it collected.      *)

ParseRegions(rawRegions) ==
    UNION { LET result == [i \in DOMAIN o |-> [RegionID |-> o[i]]]
            IN  SortSlice(result, { p \in Range(result) \X Range(result) :
                                      p[1].RegionID < p[2].RegionID })
            : o \in MapOrders(rawRegions) }

ParseConstellations(rawConstellations) ==
    UNION { LET result == [i \in DOMAIN o |->
                          [ConstellationID |-> o[i],
                          RegionID |-> rawConstellations[o[i]].RegionID]]
            IN  SortSlice(result, { p \in Range(result) \X Range(result) :
                                      p[1].ConstellationID < p[2].ConstellationID })
            : o \in MapOrders(rawConstellations) }

ParseSolarSystems(rawSystems) ==
    UNION { LET result == [i \in DOMAIN o |->
                          [SolarSystemID |-> o[i],
                          RegionID |-> rawSystems[o[i]].RegionID,
                          ConstellationID |-> rawSystems[o[i]].ConstellationID,
                          Security |-> rawSystems[o[i]].Security]]
            IN  SortSlice(result, { p \in Range(result) \X Range(result) :
                                      p[1].SolarSystemID < p[2].SolarSystemID })
            : o \in MapOrders(rawSystems) }

\* Mutant of AppendWormholeClasses: the record carries the class of the
\* first record appended, not the system's own.
RECURSIVE AppendWormholeClasses_FirstClass(_, _, _)
AppendWormholeClasses_FirstClass(rawSystems, o, i) ==
    IF i = 0 THEN <<>>
    ELSE LET rest == AppendWormholeClasses_FirstClass(rawSystems, o, i - 1)
             data == rawSystems[o[i]]
         IN  IF data.WormholeClassID # 0
             THEN Append(rest, [LocationID |-> o[i],
                                WormholeClassID |->
                                    IF rest = <<>> THEN data.WormholeClassID
                                    ELSE rest[1].WormholeClassID])
             ELSE rest

\* Mutant of AppendWormholeClasses: a record is appended for every system.
RECURSIVE AppendWormholeClasses_All(_, _, _)
AppendWormholeClasses_All(rawSystems, o, i) ==
    IF i = 0 THEN <<>>
    ELSE Append(AppendWormholeClasses_All(rawSystems, o, i - 1),
                [LocationID |-> o[i],
                 WormholeClassID |-> rawSystems[o[i]].WormholeClassID])

\* The records appended while ranging over the map in order o: those of the
\* systems whose wormholeClassID is not zero.
RECURSIVE AppendWormholeClasses(_, _, _)
AppendWormholeClasses(rawSystems, o, i) ==
    IF i = 0 THEN <<>>
    ELSE LET rest == AppendWormholeClasses(rawSystems, o, i - 1)
             data == rawSystems[o[i]]
         IN  IF data.WormholeClassID # 0
             THEN Append(rest, [LocationID |-> o[i],
                                WormholeClassID |-> data.WormholeClassID])
             ELSE rest

ExtractWormholeClasses(rawSystems) ==
    UNION { LET result == AppendWormholeClasses(rawSystems, o, Len(o))
            IN  SortSlice(result, { p \in Range(result) \X Range(result) :
                                      p[1].LocationID < p[2].LocationID })
            : o \in MapOrders(rawSystems) }

\* Mutant of OrderedPair: the pair is kept in the direction of the record.
OrderedPair_AsRecorded(fromSystem, toSystem) == <<fromSystem, toSystem>>

\* Mutant of OrderedPair: the comparison is inverted, the larger ID comes first.
OrderedPair_LargerFirst(fromSystem, toSystem) ==
    IF fromSystem > toSystem THEN <<fromSystem, toSystem>>
                             ELSE <<toSystem, fromSystem>>

\* The canonical pair of one gate record: smaller ID first.
OrderedPair(fromSystem, toSystem) ==
    IF fromSystem < toSystem THEN <<fromSystem, toSystem>>
                             ELSE <<toSystem, fromSystem>>

\* Mutant of JumpSet: a record with a zero endpoint is recorded like any other.
RECURSIVE JumpSet_KeepZero(_, _, _)
JumpSet_KeepZero(rawStargates, o, i) ==
    IF i = 0 THEN {}
    ELSE LET rest == JumpSet_KeepZero(rawStargates, o, i - 1)
             fromSystem == rawStargates[o[i]].SolarSystemID
             toSystem == rawStargates[o[i]].Destination
         IN  rest \cup {OrderedPair(fromSystem, toSystem)}

\* jumpSet after ranging over the first i records of the map in order o.
RECURSIVE JumpSet(_, _, _)
JumpSet(rawStargates, o, i) ==
    IF i = 0 THEN {}
    ELSE LET rest == JumpSet(rawStargates, o, i - 1)
             fromSystem == rawStargates[o[i]].SolarSystemID
             toSystem == rawStargates[o[i]].Destination
         IN  IF fromSystem = 0 \/ toSystem = 0
             THEN rest
             ELSE rest \cup {OrderedPair(fromSystem, toSystem)}

\* The set jumpSet as a map from its pairs, so that it can be ranged over.
PairMap(S) == [pair \in S |-> TRUE]

ParseStargates(rawStargates) ==
    UNION { UNION { LET result == [i \in DOMAIN po |->
                                  [FromSolarSystemID |-> po[i][1],
                                  ToSolarSystemID |-> po[i][2]]]
                    IN  SortSlice(result, { p \in Range(result) \X Range(result) :
                                              IF p[1].FromSolarSystemID # p[2].FromSolarSystemID
                                              THEN p[1].FromSolarSystemID < p[2].FromSolarSystemID
                                              ELSE p[1].ToSolarSystemID < p[2].ToSolarSystemID })
                    : po \in MapOrders(PairMap(JumpSet(rawStargates, o, Len(o)))) }
            : o \in MapOrders(rawStargates) }

\* parser.ParseAll: every parser run on the SDE directory, the results put
\* into one ParseResult.  Types and Groups stay the maps the YAML holds.
ParseAll(dir) ==
    { [Regions |-> regions, Constellations |-> constellations,
       SolarSystems |-> systems, Types |-> dir.Types, Groups |-> dir.Groups,
       WormholeClasses |-> classes, SystemJumps |-> jumps]
      : regions \in ParseRegions(dir.Regions),
        constellations \in ParseConstellations(dir.Constellations),
        systems \in ParseSolarSystems(dir.SolarSystems),
        classes \in ExtractWormholeClasses(dir.SolarSystems),
        jumps \in ParseStargates(dir.Stargates) }

-----------------------------------------------------------------------------
(* internal/transformer/transformer.go                                     *)

\* Mutant of transformSolarSystems: the field-by-field copy leaves out the
\* constellation ID.
transformSolarSystems_NoConstellation(systems) ==
    LET result == [i \in DOMAIN systems |->
                  [systems[i] EXCEPT !.Security = GetTrueSecurity(systems[i].Security),
                  !.ConstellationID = 0]]
    IN  SortSlice(result, { p \in Range(result) \X Range(result) :
                              p[1].SolarSystemID < p[2].SolarSystemID })

\* Mutant of transformSolarSystems: the raw security is copied as it is.
transformSolarSystems_RawSecurity(systems) ==
    LET result == [i \in DOMAIN systems |-> systems[i]]
    IN  SortSlice(result, { p \in Range(result) \X Range(result) :
                              p[1].SolarSystemID < p[2].SolarSystemID })

\* result[i] = sys with Security replaced, then sorted by system ID.
transformSolarSystems(systems) ==
    LET result == [i \in DOMAIN systems |->
                  [systems[i] EXCEPT !.Security = GetTrueSecurity(systems[i].Security)]]
    IN  SortSlice(result, { p \in Range(result) \X Range(result) :
                              p[1].SolarSystemID < p[2].SolarSystemID })

\* Mutant of sortRegions: the comparator is inverted.
sortRegions_Descending(regions) ==
    LET result == regions
    IN  SortSlice(result, { p \in Range(result) \X Range(result) :
                              p[1].RegionID > p[2].RegionID })

sortRegions(regions) ==
    LET result == regions
    IN  SortSlice(result, { p \in Range(result) \X Range(result) :
                              p[1].RegionID < p[2].RegionID })

sortConstellations(constellations) ==
    LET result == constellations
    IN  SortSlice(result, { p \in Range(result) \X Range(result) :
                              p[1].ConstellationID < p[2].ConstellationID })

sortWormholeClasses(classes) ==
    LET result == classes
    IN  SortSlice(result, { p \in Range(result) \X Range(result) :
                              p[1].LocationID < p[2].LocationID })

\* "ships" revision: the jumps are copied and sorted, nothing is attached.
sortSystemJumps(jumps) ==
    LET result == jumps
    IN  SortSlice(result, { p \in Range(result) \X Range(result) :
                              IF p[1].FromSolarSystemID # p[2].FromSolarSystemID
                              THEN p[1].FromSolarSystemID < p[2].FromSolarSystemID
                              ELSE p[1].ToSolarSystemID < p[2].ToSolarSystemID })

\* Mutant of transformTypes: unpublished types are left out.
transformTypes_PublishedOnly(types) ==
    UNION { LET kept == SelectSeq(o, LAMBDA id : types[id].Published)
                result == [i \in DOMAIN kept |->
                          [TypeID |-> kept[i], GroupID |-> types[kept[i]].GroupID,
                          Published |-> types[kept[i]].Published]]
            IN  SortSlice(result, { p \in Range(result) \X Range(result) :
                                      p[1].TypeID < p[2].TypeID })
            : o \in MapOrders(types) }

transformTypes(types) ==
    UNION { LET result == [i \in DOMAIN o |->
                          [TypeID |-> o[i], GroupID |-> types[o[i]].GroupID,
                          Published |-> types[o[i]].Published]]
            IN  SortSlice(result, { p \in Range(result) \X Range(result) :
                                      p[1].TypeID < p[2].TypeID })
            : o \in MapOrders(types) }

\* Mutant of transformGroups: the records stay in the order of the map.
transformGroups_Unsorted(groups) ==
    { [i \in DOMAIN o |->
         [GroupID |-> o[i], CategoryID |-> groups[o[i]].CategoryID,
          Published |-> groups[o[i]].Published]]
      : o \in MapOrders(groups) }

transformGroups(groups) ==
    UNION { LET result == [i \in DOMAIN o |->
                          [GroupID |-> o[i], CategoryID |-> groups[o[i]].CategoryID,
                          Published |-> groups[o[i]].Published]]
            IN  SortSlice(result, { p \in Range(result) \X Range(result) :
                                      p[1].GroupID < p[2].GroupID })
            : o \in MapOrders(groups) }

\* systemLookup: for every system ID of the slice, the last system carrying it.
SystemLookup(systems) ==
    [id \in { systems[i].SolarSystemID : i \in DOMAIN systems } |->
        systems[CHOOSE i \in DOMAIN systems :
                   /\ systems[i].SolarSystemID = id
                   /\ \A j \in DOMAIN systems :
                        systems[j].SolarSystemID = id => j <= i]]

\* Mutant of EnrichJump: the From system ID is copied to both endpoints.
EnrichJump_ToIsFrom(jump, systemLookup) ==
    LET fromOK == jump.FromSolarSystemID \in DOMAIN systemLookup
    IN  [FromSolarSystemID |-> jump.FromSolarSystemID,
         ToSolarSystemID |-> jump.FromSolarSystemID,
         FromRegionID |->
            IF fromOK THEN systemLookup[jump.FromSolarSystemID].RegionID ELSE 0,
         FromConstellationID |->
            IF fromOK THEN systemLookup[jump.FromSolarSystemID].ConstellationID ELSE 0,
         ToRegionID |->
            IF fromOK THEN systemLookup[jump.FromSolarSystemID].RegionID ELSE 0,
         ToConstellationID |->
            IF fromOK THEN systemLookup[jump.FromSolarSystemID].ConstellationID ELSE 0]

\* Mutant of EnrichJump: the parents of the To system are attached to the From
\* side and those of the From system to the To side.
EnrichJump_Crossed(jump, systemLookup) ==
    LET fromOK == jump.FromSolarSystemID \in DOMAIN systemLookup
        toOK == jump.ToSolarSystemID \in DOMAIN systemLookup
    IN  [FromSolarSystemID |-> jump.FromSolarSystemID,
         ToSolarSystemID |-> jump.ToSolarSystemID,
         FromRegionID |->
            IF toOK THEN systemLookup[jump.ToSolarSystemID].RegionID ELSE 0,
         FromConstellationID |->
            IF toOK THEN systemLookup[jump.ToSolarSystemID].ConstellationID ELSE 0,
         ToRegionID |->
            IF fromOK THEN systemLookup[jump.FromSolarSystemID].RegionID ELSE 0,
         ToConstellationID |->
            IF fromOK THEN systemLookup[jump.FromSolarSystemID].ConstellationID ELSE 0]

\* One jump with the region and constellation of each endpoint found in the
\* lookup; the fields of an endpoint that is not found keep Go's zero value.
EnrichJump(jump, systemLookup) ==
    LET fromOK == jump.FromSolarSystemID \in DOMAIN systemLookup
        toOK == jump.ToSolarSystemID \in DOMAIN systemLookup
    IN  [FromSolarSystemID |-> jump.FromSolarSystemID,
         ToSolarSystemID |-> jump.ToSolarSystemID,
         FromRegionID |->
            IF fromOK THEN systemLookup[jump.FromSolarSystemID].RegionID ELSE 0,
         FromConstellationID |->
            IF fromOK THEN systemLookup[jump.FromSolarSystemID].ConstellationID ELSE 0,
         ToRegionID |->
            IF toOK THEN systemLookup[jump.ToSolarSystemID].RegionID ELSE 0,
         ToConstellationID |->
            IF toOK THEN systemLookup[jump.ToSolarSystemID].ConstellationID ELSE 0]

transformSystemJumps(jumps, systems) ==
    LET result == [i \in DOMAIN jumps |-> EnrichJump(jumps[i], SystemLookup(systems))]
    IN  SortSlice(result, { p \in Range(result) \X Range(result) :
                              IF p[1].FromSolarSystemID # p[2].FromSolarSystemID
                              THEN p[1].FromSolarSystemID < p[2].FromSolarSystemID
                              ELSE p[1].ToSolarSystemID < p[2].ToSolarSystemID })

\* The ship category of the SDE.
ShipCategoryID == 6

\* internal/transformer/filters.go is not among the sources: the two filters
\* are modelled from the specification (section 4.6, narrowing variant).
FilterShipGroups(groups) ==
    UNION { LET result == [i \in DOMAIN o |->
                          [GroupID |-> o[i], CategoryID |-> groups[o[i]].CategoryID]]
            IN  SortSlice(result, { p \in Range(result) \X Range(result) :
                                      p[1].GroupID < p[2].GroupID })
            : o \in MapOrders([g \in { h \in DOMAIN groups :
                                         groups[h].CategoryID = ShipCategoryID }
                               |-> groups[g]]) }

FilterShipTypes(types, groups) ==
    UNION { LET result == [i \in DOMAIN o |->
                          [TypeID |-> o[i], GroupID |-> types[o[i]].GroupID]]
            IN  SortSlice(result, { p \in Range(result) \X Range(result) :
                                      p[1].TypeID < p[2].TypeID })
            : o \in MapOrders([t \in { u \in DOMAIN types :
                                         /\ types[u].GroupID \in DOMAIN groups
                                         /\ groups[types[u].GroupID].CategoryID
                                              = ShipCategoryID }
                               |-> types[t]]) }

\* Mutant of TransformShips: the groups are converted, not filtered.
TransformShips_AllGroups(pr) ==
    { [Universe |-> [Regions |-> regions, Constellations |-> constellations,
                     SolarSystems |-> systems],
       Types |-> shipTypes, Groups |-> shipGroups,
       WormholeClasses |-> wormholeClasses, SystemJumps |-> systemJumps]
      : systems \in transformSolarSystems(pr.SolarSystems),
        regions \in sortRegions(pr.Regions),
        constellations \in sortConstellations(pr.Constellations),
        shipTypes \in FilterShipTypes(pr.Types, pr.Groups),
        shipGroups \in transformGroups(pr.Groups),
        wormholeClasses \in sortWormholeClasses(pr.WormholeClasses),
        systemJumps \in sortSystemJumps(pr.SystemJumps) }

\* Transform, "ships" revision (transformer.go:25-96).  The fields ShipTypes /
\* InvTypes and ItemGroups / InvGroups of the two revisions are Types, Groups.
TransformShips(pr) ==
    { [Universe |-> [Regions |-> regions, Constellations |-> constellations,
                     SolarSystems |-> systems],
       Types |-> shipTypes, Groups |-> shipGroups,
       WormholeClasses |-> wormholeClasses, SystemJumps |-> systemJumps]
      : systems \in transformSolarSystems(pr.SolarSystems),
        regions \in sortRegions(pr.Regions),
        constellations \in sortConstellations(pr.Constellations),
        shipTypes \in FilterShipTypes(pr.Types, pr.Groups),
        shipGroups \in FilterShipGroups(pr.Groups),
        wormholeClasses \in sortWormholeClasses(pr.WormholeClasses),
        systemJumps \in sortSystemJumps(pr.SystemJumps) }

\* Transform, "all" revision (transformer.go:264-335).
TransformAll(pr) ==
    UNION { { [Universe |-> [Regions |-> regions, Constellations |-> constellations,
                             SolarSystems |-> systems],
               Types |-> invTypes, Groups |-> invGroups,
               WormholeClasses |-> wormholeClasses, SystemJumps |-> systemJumps]
              : regions \in sortRegions(pr.Regions),
                constellations \in sortConstellations(pr.Constellations),
                invTypes \in transformTypes(pr.Types),
                invGroups \in transformGroups(pr.Groups),
                wormholeClasses \in sortWormholeClasses(pr.WormholeClasses),
                systemJumps \in transformSystemJumps(pr.SystemJumps, systems) }
            : systems \in transformSolarSystems(pr.SolarSystems) }

Transform(variant, pr) ==
    IF variant = "ships" THEN TransformShips(pr) ELSE TransformAll(pr)

\* One entry of the record of executed stages: what was done, to which
\* collection.
Stage(stage, of) == [stage |-> stage, of |-> of]

\* ParseStargates: the pairs are deduplicated in jumpSet, then sorted.
ParseStargatesStages ==
    <<Stage("Dedup", "SystemJumps"), Stage("Sort", "SystemJumps")>>

\* The calls of Transform, "ships" revision, in the order of its statements.
TransformShipsStages ==
    <<Stage("Security", "SolarSystems"), Stage("Sort", "SolarSystems"),
      Stage("Sort", "Regions"), Stage("Sort", "Constellations"),
      Stage("Filter", "Types"), Stage("Filter", "Groups"),
      Stage("Sort", "WormholeClasses"), Stage("Sort", "SystemJumps")>>

\* Mutant of TransformAllStages: the jumps are sorted first and enriched last.
TransformAllStages_SortBeforeEnrich ==
    <<Stage("Security", "SolarSystems"), Stage("Sort", "SolarSystems"),
      Stage("Sort", "Regions"), Stage("Sort", "Constellations"),
      Stage("Sort", "Types"), Stage("Sort", "Groups"),
      Stage("Sort", "WormholeClasses"),
      Stage("Sort", "SystemJumps"), Stage("Enrich", "SystemJumps")>>

\* The calls of Transform, "all" revision, in the order of its statements.
TransformAllStages ==
    <<Stage("Security", "SolarSystems"), Stage("Sort", "SolarSystems"),
      Stage("Sort", "Regions"), Stage("Sort", "Constellations"),
      Stage("Sort", "Types"), Stage("Sort", "Groups"),
      Stage("Sort", "WormholeClasses"),
      Stage("Enrich", "SystemJumps"), Stage("Sort", "SystemJumps")>>

TransformStages(variant) ==
    IF variant = "ships" THEN TransformShipsStages ELSE TransformAllStages

\* Validation thresholds.
minSolarSystems == 8000
minRegions == 100
minConstellations == 1000
minShipTypes == 400
minTypes == 30000
minSystemJumps == 10000

\* fmt.Sprintf("<what> count (%d) is below expected minimum (%d)", count, min)
Warning(what, count, min) == [what |-> what, count |-> count, min |-> min]

\* Mutant of MinimumCountWarnings: an empty collection of regions is left to
\* the error and not warned about.
MinimumCountWarnings_NotWhenEmpty(variant, n) ==
    LET typeMin == IF variant = "ships" THEN minShipTypes ELSE minTypes
        typeWhat == IF variant = "ships" THEN "Ship type" ELSE "Type"
        w1 == IF n.SolarSystems < minSolarSystems
              THEN <<Warning("Solar system", n.SolarSystems, minSolarSystems)>>
              ELSE <<>>
        w2 == IF n.Regions > 0 /\ n.Regions < minRegions
              THEN Append(w1, Warning("Region", n.Regions, minRegions))
              ELSE w1
        w3 == IF n.Constellations < minConstellations
              THEN Append(w2, Warning("Constellation", n.Constellations,
                                      minConstellations))
              ELSE w2
        w4 == IF n.Types < typeMin
              THEN Append(w3, Warning(typeWhat, n.Types, typeMin))
              ELSE w3
    IN  IF n.SystemJumps < minSystemJumps
        THEN Append(w4, Warning("System jump", n.SystemJumps, minSystemJumps))
        ELSE w4

\* Mutant of MinimumCountWarnings: a region count equal to the minimum is
\* warned about as well.
MinimumCountWarnings_Inclusive(variant, n) ==
    LET typeMin == IF variant = "ships" THEN minShipTypes ELSE minTypes
        typeWhat == IF variant = "ships" THEN "Ship type" ELSE "Type"
        w1 == IF n.SolarSystems < minSolarSystems
              THEN <<Warning("Solar system", n.SolarSystems, minSolarSystems)>>
              ELSE <<>>
        w2 == IF n.Regions <= minRegions
              THEN Append(w1, Warning("Region", n.Regions, minRegions))
              ELSE w1
        w3 == IF n.Constellations < minConstellations
              THEN Append(w2, Warning("Constellation", n.Constellations,
                                      minConstellations))
              ELSE w2
        w4 == IF n.Types < typeMin
              THEN Append(w3, Warning(typeWhat, n.Types, typeMin))
              ELSE w3
    IN  IF n.SystemJumps < minSystemJumps
        THEN Append(w4, Warning("System jump", n.SystemJumps, minSystemJumps))
        ELSE w4

\* "Check minimum counts": the warnings of Validate for the lengths n.
MinimumCountWarnings(variant, n) ==
    LET typeMin == IF variant = "ships" THEN minShipTypes ELSE minTypes
        typeWhat == IF variant = "ships" THEN "Ship type" ELSE "Type"
        w1 == IF n.SolarSystems < minSolarSystems
              THEN <<Warning("Solar system", n.SolarSystems, minSolarSystems)>>
              ELSE <<>>
        w2 == IF n.Regions < minRegions
              THEN Append(w1, Warning("Region", n.Regions, minRegions))
              ELSE w1
        w3 == IF n.Constellations < minConstellations
              THEN Append(w2, Warning("Constellation", n.Constellations,
                                      minConstellations))
              ELSE w2
        w4 == IF n.Types < typeMin
              THEN Append(w3, Warning(typeWhat, n.Types, typeMin))
              ELSE w3
    IN  IF n.SystemJumps < minSystemJumps
        THEN Append(w4, Warning("System jump", n.SystemJumps, minSystemJumps))
        ELSE w4

\* Mutant of RequiredDataErrors: the checks stop at the first error.
RequiredDataErrors_FirstOnly(n) ==
    IF n.SolarSystems = 0 THEN <<"No solar systems found">>
    ELSE IF n.Regions = 0 THEN <<"No regions found">>
    ELSE IF n.Constellations = 0 THEN <<"No constellations found">>
    ELSE <<>>

\* Mutant of RequiredDataErrors: the check of the regions looks at the
\* constellations.
RequiredDataErrors_WrongCount(n) ==
    LET e1 == IF n.SolarSystems = 0 THEN <<"No solar systems found">> ELSE <<>>
        e2 == IF n.Constellations = 0 THEN Append(e1, "No regions found") ELSE e1
    IN  IF n.Constellations = 0 THEN Append(e2, "No constellations found") ELSE e2

\* "Check for empty required data": the errors of Validate for the lengths n.
RequiredDataErrors(n) ==
    LET e1 == IF n.SolarSystems = 0 THEN <<"No solar systems found">> ELSE <<>>
        e2 == IF n.Regions = 0 THEN Append(e1, "No regions found") ELSE e1
    IN  IF n.Constellations = 0 THEN Append(e2, "No constellations found") ELSE e2

\* Validate on the seven lengths n it has taken from the data.
ValidateCounts(variant, n) ==
    [SolarSystems |-> n.SolarSystems, Regions |-> n.Regions,
     Constellations |-> n.Constellations, Types |-> n.Types,
     Groups |-> n.Groups, SystemJumps |-> n.SystemJumps,
     WormholeClasses |-> n.WormholeClasses,
     Errors |-> RequiredDataErrors(n),
     Warnings |-> MinimumCountWarnings(variant, n)]

\* Mutant of Lengths: the wormhole classes are counted from the jumps.
Lengths_JumpsForClasses(data) ==
    [SolarSystems |-> Len(data.Universe.SolarSystems),
     Regions |-> Len(data.Universe.Regions),
     Constellations |-> Len(data.Universe.Constellations),
     Types |-> Len(data.Types), Groups |-> Len(data.Groups),
     SystemJumps |-> Len(data.SystemJumps),
     WormholeClasses |-> Len(data.SystemJumps)]

\* The lengths Validate reads from the converted data.
Lengths(data) ==
    [SolarSystems |-> Len(data.Universe.SolarSystems),
     Regions |-> Len(data.Universe.Regions),
     Constellations |-> Len(data.Universe.Constellations),
     Types |-> Len(data.Types), Groups |-> Len(data.Groups),
     SystemJumps |-> Len(data.SystemJumps),
     WormholeClasses |-> Len(data.WormholeClasses)]

Validate(variant, data) == ValidateCounts(variant, Lengths(data))

\* models.ValidationResult.IsValid
IsValid(v) == Len(v.Errors) = 0

-----------------------------------------------------------------------------
(* internal/transformer/bounds.go.  The functions work in place on the     *)
(* slices they are given; here each returns the slice as it leaves it.     *)
(* Coordinates (float64 in the source) are integers; a *int64 faction ID   *)
(* is <<>> for nil and <<f>> for a pointer to f.                           *)

\* The six bound fields of a region or constellation.
BoundFields == {"XMin", "XMax", "YMin", "YMax", "ZMin", "ZMax"}

\* The loop over sysList from element i on: b holds minX, maxX, ... so far.
RECURSIVE ScanBounds(_, _, _)
ScanBounds(sysList, i, b) ==
    IF i > Len(sysList) THEN b
    ELSE LET sys == sysList[i]
         IN  ScanBounds(sysList, i + 1,
                 [XMin |-> IF sys.X < b.XMin THEN sys.X ELSE b.XMin,
                  XMax |-> IF sys.X > b.XMax THEN sys.X ELSE b.XMax,
                  YMin |-> IF sys.Y < b.YMin THEN sys.Y ELSE b.YMin,
                  YMax |-> IF sys.Y > b.YMax THEN sys.Y ELSE b.YMax,
                  ZMin |-> IF sys.Z < b.ZMin THEN sys.Z ELSE b.ZMin,
                  ZMax |-> IF sys.Z > b.ZMax THEN sys.Z ELSE b.ZMax])

\* Mutant of SetBounds: the bounds are those of the first system of the list.
SetBounds_FirstSystem(parent, sysList) ==
    IF Len(sysList) = 0
    THEN parent
    ELSE LET b == [XMin |-> sysList[1].X, XMax |-> sysList[1].X,
                   YMin |-> sysList[1].Y, YMax |-> sysList[1].Y,
                   ZMin |-> sysList[1].Z, ZMax |-> sysList[1].Z]
         IN  [f \in DOMAIN parent |-> IF f \in BoundFields THEN b[f] ELSE parent[f]]

\* Mutant of SetBounds: a parent without systems gets its bounds zeroed.
SetBounds_ZeroWhenEmpty(parent, sysList) ==
    IF Len(sysList) = 0
    THEN [f \in DOMAIN parent |-> IF f \in BoundFields THEN 0 ELSE parent[f]]
    ELSE LET b == ScanBounds(sysList, 1,
                    [XMin |-> sysList[1].X, XMax |-> sysList[1].X,
                     YMin |-> sysList[1].Y, YMax |-> sysList[1].Y,
                     ZMin |-> sysList[1].Z, ZMax |-> sysList[1].Z])
         IN  [f \in DOMAIN parent |-> IF f \in BoundFields THEN b[f] ELSE parent[f]]

\* Mutant of SetBounds: the scan starts from zero instead of the first system.
SetBounds_FromZero(parent, sysList) ==
    IF Len(sysList) = 0
    THEN parent
    ELSE LET b == ScanBounds(sysList, 1,
                    [XMin |-> 0, XMax |-> 0, YMin |-> 0, YMax |-> 0,
                     ZMin |-> 0, ZMax |-> 0])
         IN  [f \in DOMAIN parent |-> IF f \in BoundFields THEN b[f] ELSE parent[f]]

\* One pass of the loop over the parents: parent with the bounds of sysList
\* written to it, or parent as it is when sysList is empty.
SetBounds(parent, sysList) ==
    IF Len(sysList) = 0
    THEN parent
    ELSE LET b == ScanBounds(sysList, 1,
                    [XMin |-> sysList[1].X, XMax |-> sysList[1].X,
                     YMin |-> sysList[1].Y, YMax |-> sysList[1].Y,
                     ZMin |-> sysList[1].Z, ZMax |-> sysList[1].Z])
         IN  [f \in DOMAIN parent |-> IF f \in BoundFields THEN b[f] ELSE parent[f]]

\* regionSystems[id]: the systems of the region, in the order of the slice
\* (the empty slice for a key the map does not hold).
RegionSystems(systems, id) == SelectSeq(systems, LAMBDA sys : sys.RegionID = id)

ConstellationSystems(systems, id) ==
    SelectSeq(systems, LAMBDA sys : sys.ConstellationID = id)

CalculateRegionBounds(regions, systems) ==
    [i \in DOMAIN regions |->
        SetBounds(regions[i], RegionSystems(systems, regions[i].RegionID))]

CalculateConstellationBounds(constellations, systems) ==
    [i \in DOMAIN constellations |->
        SetBounds(constellations[i],
                  ConstellationSystems(systems, constellations[i].ConstellationID))]

\* regionFactions: for every region ID of the slice, the faction of the last
\* region carrying it.
RegionFactions(regions) ==
    [id \in { regions[i].RegionID : i \in DOMAIN regions } |->
        regions[CHOOSE i \in DOMAIN regions :
                   /\ regions[i].RegionID = id
                   /\ \A j \in DOMAIN regions :
                        regions[j].RegionID = id => j <= i].FactionID]

\* Mutant of InheritFactionIDs: a faction the system already has is replaced
\* by its region's.
InheritFactionIDs_Override(systems, regions) ==
    LET regionFactions == RegionFactions(regions)
    IN  [i \in DOMAIN systems |->
            IF /\ systems[i].RegionID \in DOMAIN regionFactions
               /\ regionFactions[systems[i].RegionID] # <<>>
            THEN [systems[i] EXCEPT !.FactionID = regionFactions[systems[i].RegionID]]
            ELSE systems[i]]

InheritFactionIDs(systems, regions) ==
    LET regionFactions == RegionFactions(regions)
    IN  [i \in DOMAIN systems |->
            IF /\ systems[i].FactionID = <<>>
               /\ systems[i].RegionID \in DOMAIN regionFactions
               /\ regionFactions[systems[i].RegionID] # <<>>
            THEN [systems[i] EXCEPT !.FactionID = regionFactions[systems[i].RegionID]]
            ELSE systems[i]]

-----------------------------------------------------------------------------
(* InheritFactionIDs with the *int64 of FactionID as what it is: the        *)
(* address of a cell.  cells is the sequence of the int64 cells allocated  *)
(* so far, an address is an index into it, and NilCell is the nil pointer. *)

NilCell == 0

\* regionFactions: for every region ID of the slice, the pointer of the last
\* region carrying it.
RegionFactionCells(regions) ==
    [id \in { regions[i].RegionID : i \in DOMAIN regions } |->
        regions[CHOOSE i \in DOMAIN regions :
                   /\ regions[i].RegionID = id
                   /\ \A j \in DOMAIN regions :
                        regions[j].RegionID = id => j <= i].FactionID]

\* The condition under which system i is given a faction.
InheritsFaction(systems, regions, i) ==
    /\ systems[i].FactionID = NilCell
    /\ systems[i].RegionID \in DOMAIN RegionFactionCells(regions)
    /\ RegionFactionCells(regions)[systems[i].RegionID] # NilCell

\* Mutant of InheritFactionIDsCells: the system is given the region's pointer.
InheritFactionIDsCells_Shared(cells, systems, regions) ==
    [cells |-> cells,
     systems |-> [i \in DOMAIN systems |->
                    IF InheritsFaction(systems, regions, i)
                    THEN [systems[i] EXCEPT !.FactionID =
                            RegionFactionCells(regions)[systems[i].RegionID]]
                    ELSE systems[i]]]

\* val := *factionID; systems[i].FactionID = &val: every system that
\* inherits gets a new cell holding the value of its region's cell.
InheritFactionIDsCells(cells, systems, regions) ==
    LET heirs == SelectSeq([i \in DOMAIN systems |-> i],
                           LAMBDA i : InheritsFaction(systems, regions, i))
        val(i) == cells[RegionFactionCells(regions)[systems[i].RegionID]]
        cellOf(i) == Len(cells) + CHOOSE k \in DOMAIN heirs : heirs[k] = i
    IN  [cells |-> cells \o [k \in DOMAIN heirs |-> val(heirs[k])],
         systems |-> [i \in DOMAIN systems |->
                        IF InheritsFaction(systems, regions, i)
                        THEN [systems[i] EXCEPT !.FactionID = cellOf(i)]
                        ELSE systems[i]]]

-----------------------------------------------------------------------------
(* The SDE directories the run is started on.                              *)

\* Maps whose keys are 1..k for some k <= n, and maps on any keys of 1..n.
PrefixMaps(n, V) == UNION { [1..k -> V] : k \in 0..n }
SubsetMaps(n, V) == UNION { [D -> V] : D \in SUBSET (1..n) }

IDs == 1..MaxID

\* Raw security values of the fixture of the integration tests (Jita 0.9459,
\* a wormhole system -1.0) and one of the low positive band.
SecSamples == {9459, 400, -10000}

RawRegion == [FactionID : {0}]
RawConstellation == [RegionID : IDs]
RawSystem == [RegionID : IDs, ConstellationID : IDs,
              Security : SecSamples, WormholeClassID : 0..1]
RawStargate == [SolarSystemID : 0..MaxID, Destination : 0..MaxID]
RawType == [GroupID : IDs, Published : BOOLEAN]
RawGroup == [CategoryID : {ShipCategoryID, ShipCategoryID + 1}, Published : {TRUE}]

\* A one-region, one-constellation, one-system universe without gates or items.
BaseSDE ==
    [Regions |-> [id \in {1} |-> [FactionID |-> 0]],
     Constellations |-> [id \in {1} |-> [RegionID |-> 1]],
     SolarSystems |-> [id \in {1} |-> [RegionID |-> 1, ConstellationID |-> 1,
                                       Security |-> 9459, WormholeClassID |-> 0]],
     Stargates |-> <<>>,
     Types |-> <<>>,
     Groups |-> <<>>]

\* The attributes system id carries where only its presence is varied.
PlainSystem(id) ==
    [RegionID |-> id, ConstellationID |-> MaxID + 1 - id,
     Security |-> 9459, WormholeClassID |-> 0]

\* Systems that differ in their parents only, and in everything else only.
ParentedSystems == { x \in RawSystem : x.Security = 9459 /\ x.WormholeClassID = 0 }
RatedSystems == { x \in RawSystem : x.RegionID = 1 /\ x.ConstellationID = 1 }

\* Directories that vary the regions and what the constellations name as
\* their region.
IsRegionSDE(dir) ==
    \E r \in PrefixMaps(MaxID, RawRegion),
       c \in PrefixMaps(MaxID, RawConstellation) :
        dir = [BaseSDE EXCEPT !.Regions = r, !.Constellations = c]

\* Directories that vary the regions and what the systems name as their
\* region and constellation.
IsParentSDE(dir) ==
    \E r \in PrefixMaps(MaxID, RawRegion),
       s \in PrefixMaps(MaxID, ParentedSystems) :
        dir = [BaseSDE EXCEPT !.Regions = r, !.SolarSystems = s]

\* Directories in which any of the three foundational files is empty.
IsSparseSDE(dir) ==
    \E r \in {<<>>, BaseSDE.Regions},
       c \in {<<>>, BaseSDE.Constellations},
       s \in {<<>>, BaseSDE.SolarSystems} :
        dir = [BaseSDE EXCEPT !.Regions = r, !.Constellations = c, !.SolarSystems = s]

\* Directories that vary the security and the wormhole class of the systems.
IsSystemSDE(dir) ==
    \E s \in SubsetMaps(MaxID, RatedSystems) :
        dir = [BaseSDE EXCEPT !.SolarSystems = s]

\* Directories that vary the gate records and how many systems exist.
IsStargateSDE(dir) ==
    \E k \in 0..MaxID, g \in PrefixMaps(MaxGates, RawStargate) :
        dir = [BaseSDE EXCEPT !.SolarSystems = [id \in 1..k |-> PlainSystem(id)],
                              !.Stargates = g]

\* Directories that vary the item types and groups.
IsItemSDE(dir) ==
    \E t \in PrefixMaps(MaxID, RawType), g \in SubsetMaps(MaxID, RawGroup) :
        dir = [BaseSDE EXCEPT !.Types = t, !.Groups = g]

-----------------------------------------------------------------------------
(* runConversion (cmd/sdeconvert/main.go), from step 2 on.                 *)

\* The files of WriteAll, in the order it writes them.
OutputFiles ==
    <<"mapSolarSystems.json", "mapRegions.json", "mapConstellations.json",
      "mapLocationWormholeClasses.json", "invTypes.json", "invGroups.json",
      "mapSolarSystemJumps.json">>

\* No GetTrueSecurity or Validate call of its own is under way.
Idle ==
    /\ secIn = <<>> /\ secOut = <<>>
    /\ vIn = <<>> /\ vOut = <<>>
    /\ gIn = <<>> /\ gOut = <<>>

Init ==
    /\ cfgVariant \in {"ships", "all"}
    /\ \/ IsRegionSDE(sde)
       \/ IsParentSDE(sde)
       \/ IsSparseSDE(sde)
       \/ IsSystemSDE(sde)
       \/ IsStargateSDE(sde)
       \/ IsItemSDE(sde)
    /\ pc = "parse"
    /\ parseResult = None
    /\ convertedData = None
    /\ validationResult = None
    /\ written = <<>>
    /\ copied = FALSE
    /\ runErr = ""
    /\ stages = <<>>
    /\ Idle

\* Step 2: p.ParseAll(); a file that cannot be read or parsed ends the run.
StepParse ==
    /\ pc = "parse"
    /\ \/ /\ \E pr \in ParseAll(sde) : parseResult' = pr
          /\ stages' = stages \o ParseStargatesStages
          /\ pc' = "transform"
          /\ UNCHANGED runErr
       \/ /\ pc' = "done"
          /\ runErr' = "failed to parse SDE"
          /\ UNCHANGED <<parseResult, stages>>
    /\ UNCHANGED <<cfgVariant, sde, convertedData, validationResult, written,
                   copied, secIn, secOut, vIn, vOut, gIn, gOut>>

\* Step 3: t.Transform(parseResult); Transform returns no error.
StepTransform ==
    /\ pc = "transform"
    /\ \E data \in Transform(cfgVariant, parseResult) : convertedData' = data
    /\ stages' = stages \o TransformStages(cfgVariant)
    /\ pc' = "validate"
    /\ UNCHANGED <<cfgVariant, sde, parseResult, validationResult, written,
                   copied, runErr, secIn, secOut, vIn, vOut, gIn, gOut>>

\* t.Validate(convertedData)
StepValidate ==
    /\ pc = "validate"
    /\ validationResult' = Validate(cfgVariant, convertedData)
    /\ stages' = Append(stages, Stage("Validate", "ConvertedData"))
    /\ pc' = "report"
    /\ UNCHANGED <<cfgVariant, sde, parseResult, convertedData, written,
                   copied, runErr, secIn, secOut, vIn, vOut, gIn, gOut>>

\* Mutant of StepReport: the errors are printed and the run goes on.
StepReport_GoesOn ==
    /\ pc = "report"
    /\ pc' = "write"
    /\ UNCHANGED <<cfgVariant, sde, parseResult, convertedData, validationResult,
                   written, copied, runErr, secIn, secOut, vIn, vOut, gIn, gOut, stages>>

\* The warnings are printed; a validation error ends the run.
StepReport ==
    /\ pc = "report"
    /\ IF Len(validationResult.Errors) > 0
       THEN pc' = "done" /\ runErr' = "validation failed"
       ELSE pc' = "write" /\ UNCHANGED runErr
    /\ UNCHANGED <<cfgVariant, sde, parseResult, convertedData, validationResult,
                   written, copied, secIn, secOut, vIn, vOut, gIn, gOut, stages>>

\* Step 4: w.WriteAll(convertedData) writes the files one after the other and
\* stops at the first one it cannot write (k = 0: the directory).
StepWriteAll ==
    /\ pc = "write"
    /\ \E k \in 0..Len(OutputFiles) :
         /\ written' = SubSeq(OutputFiles, 1, k)
         /\ IF k = Len(OutputFiles)
            THEN pc' = "passthrough" /\ UNCHANGED runErr
            ELSE pc' = "done" /\ runErr' = "failed to write JSON output"
    /\ UNCHANGED <<cfgVariant, sde, parseResult, convertedData, validationResult,
                   copied, secIn, secOut, vIn, vOut, gIn, gOut, stages>>

\* Step 5: CopyPassthroughFiles, if a passthrough directory is configured.
StepPassthrough ==
    /\ pc = "passthrough"
    /\ \E passthroughDir \in {"", "data"} :
         IF passthroughDir # ""
         THEN /\ copied' = TRUE
              /\ \E ok \in BOOLEAN :
                   runErr' = IF ok THEN "" ELSE "failed to copy passthrough files"
         ELSE UNCHANGED <<copied, runErr>>
    /\ pc' = "done"
    /\ UNCHANGED <<cfgVariant, sde, parseResult, convertedData, validationResult,
                   written, secIn, secOut, vIn, vOut, gIn, gOut, stages>>

Next ==
    \/ StepParse
    \/ StepTransform
    \/ StepValidate
    \/ StepReport
    \/ StepWriteAll
    \/ StepPassthrough

Spec == Init /\ [][Next]_vars

-----------------------------------------------------------------------------
(* One call of GetTrueSecurity on any raw value of the range.              *)

PipelineIdle ==
    /\ cfgVariant \in {"ships", "all"}
    /\ sde = BaseSDE
    /\ pc = "idle"
    /\ parseResult = None
    /\ convertedData = None
    /\ validationResult = None
    /\ written = <<>>
    /\ copied = FALSE
    /\ runErr = ""
    /\ stages = <<>>

pipelineVars == <<cfgVariant, sde, pc, parseResult, convertedData,
                  validationResult, written, copied, runErr, stages>>

SecInit ==
    /\ PipelineIdle
    /\ cfgVariant = "all"
    /\ secIn \in { <<r>> : r \in (-SecLimit)..SecLimit }
    /\ secOut = <<>>
    /\ vIn = <<>> /\ vOut = <<>>
    /\ gIn = <<>> /\ gOut = <<>>

CallGetTrueSecurity ==
    /\ pc = "idle"
    /\ secIn # <<>>
    /\ secOut = <<>>
    /\ secOut' = <<GetTrueSecurity(secIn[1])>>
    /\ UNCHANGED <<pipelineVars, secIn, vIn, vOut, gIn, gOut>>

SecNext == CallGetTrueSecurity

SecSpec == SecInit /\ [][SecNext]_vars

-----------------------------------------------------------------------------
(* One call of Validate on data of any size: Validate reads nothing of the *)
(* data but the lengths of its seven collections, which are drawn here     *)
(* around the thresholds.                                                  *)

Around(min) == {0, 1, min - 1, min}

ValInit ==
    /\ PipelineIdle
    /\ vIn \in { <<n>> : n \in
               [SolarSystems : Around(minSolarSystems),
                Regions : Around(minRegions),
                Constellations : Around(minConstellations),
                Types : Around(minShipTypes) \cup Around(minTypes),
                Groups : 0..1,
                SystemJumps : Around(minSystemJumps),
                WormholeClasses : 0..1] }
    /\ vOut = <<>>
    /\ secIn = <<>> /\ secOut = <<>>
    /\ gIn = <<>> /\ gOut = <<>>

CallValidate ==
    /\ pc = "idle"
    /\ vIn # <<>>
    /\ vOut = <<>>
    /\ vOut' = <<ValidateCounts(cfgVariant, vIn[1])>>
    /\ UNCHANGED <<pipelineVars, secIn, secOut, vIn, gIn, gOut>>

ValNext == CallValidate

ValSpec == ValInit /\ [][ValNext]_vars

-----------------------------------------------------------------------------
(* One call of CalculateRegionBounds, CalculateConstellationBounds or      *)
(* InheritFactionIDs on slices of regions, constellations and systems.     *)

\* The positions of the systems: no two agree on any axis, and the smallest
\* and the largest value of each axis belong to different points.
Points == { <<0, 0, 0>>, <<1, -2, 3>>, <<-1, 5, 2>>, <<4, 4, -4>> }

\* The bounds a parent carries before the call: unset, or set by an earlier
\* call.
PriorBounds ==
    { [XMin |-> 0, XMax |-> 0, YMin |-> 0, YMax |-> 0, ZMin |-> 0, ZMax |-> 0],
      [XMin |-> -11, XMax |-> 12, YMin |-> -13, YMax |-> 14, ZMin |-> -15, ZMax |-> 16] }

GeoRegion(id, faction, b) ==
    [RegionID |-> id, FactionID |-> faction,
     XMin |-> b.XMin, XMax |-> b.XMax, YMin |-> b.YMin, YMax |-> b.YMax,
     ZMin |-> b.ZMin, ZMax |-> b.ZMax]

GeoConstellation(id, b) ==
    [ConstellationID |-> id, RegionID |-> id,
     XMin |-> b.XMin, XMax |-> b.XMax, YMin |-> b.YMin, YMax |-> b.YMax,
     ZMin |-> b.ZMin, ZMax |-> b.ZMax]

GeoSystem(id, region, constellation, faction, p) ==
    [SolarSystemID |-> id, RegionID |-> region, ConstellationID |-> constellation,
     FactionID |-> faction, X |-> p[1], Y |-> p[2], Z |-> p[3]]

\* What can vary in the systems of a slice of at most MaxSystems systems: V
\* holds the choices for one system.
SystemChoices(V) == UNION { [1..n -> V] : n \in 0..MaxSystems }

\* Inputs that vary where the systems lie and which region and constellation
\* each belongs to, and whether the parents carry bounds already.
BoundsInputs ==
    { [regions |-> [id \in IDs |-> GeoRegion(id, <<>>, b)],
       constellations |-> [id \in IDs |-> GeoConstellation(id, b)],
       systems |-> [i \in DOMAIN c |->
                      GeoSystem(i, c[i][1], c[i][2], <<>>, c[i][3])]]
      : b \in PriorBounds, c \in SystemChoices(IDs \X IDs \X Points) }

\* Inputs that vary the factions: of each region, of each system, and which
\* region a system names (MaxID + 1: a region that is not in the slice).
FactionInputs ==
    LET unset == CHOOSE b \in PriorBounds : b.XMin = 0
    IN  { [regions |-> [id \in IDs |->
                          GeoRegion(id, IF rf[id] THEN <<500000 + id>> ELSE <<>>, unset)],
           constellations |-> [id \in IDs |-> GeoConstellation(id, unset)],
           systems |-> [i \in DOMAIN c |->
                          GeoSystem(i, c[i][1], 1, c[i][2], <<0, 0, 0>>)]]
          : rf \in [IDs -> BOOLEAN],
            c \in SystemChoices((1..(MaxID + 1)) \X {<<>>, <<500010>>}) }

GeoInit ==
    /\ PipelineIdle
    /\ cfgVariant = "all"
    /\ gIn \in { <<x>> : x \in BoundsInputs \cup FactionInputs }
    /\ gOut = <<>>
    /\ secIn = <<>> /\ secOut = <<>>
    /\ vIn = <<>> /\ vOut = <<>>

\* What a call leaves behind: the three slices, op being the function called.
Called(op, regions, constellations, systems) ==
    <<[op |-> op, regions |-> regions, constellations |-> constellations,
       systems |-> systems]>>

CallCalculateRegionBounds ==
    /\ pc = "idle"
    /\ gIn # <<>>
    /\ gOut = <<>>
    /\ gOut' = Called("CalculateRegionBounds",
                      CalculateRegionBounds(gIn[1].regions, gIn[1].systems),
                      gIn[1].constellations, gIn[1].systems)
    /\ UNCHANGED <<pipelineVars, secIn, secOut, vIn, vOut, gIn>>

CallCalculateConstellationBounds ==
    /\ pc = "idle"
    /\ gIn # <<>>
    /\ gOut = <<>>
    /\ gOut' = Called("CalculateConstellationBounds", gIn[1].regions,
                      CalculateConstellationBounds(gIn[1].constellations,
                                                   gIn[1].systems),
                      gIn[1].systems)
    /\ UNCHANGED <<pipelineVars, secIn, secOut, vIn, vOut, gIn>>

CallInheritFactionIDs ==
    /\ pc = "idle"
    /\ gIn # <<>>
    /\ gOut = <<>>
    /\ gOut' = Called("InheritFactionIDs", gIn[1].regions, gIn[1].constellations,
                      InheritFactionIDs(gIn[1].systems, gIn[1].regions))
    /\ UNCHANGED <<pipelineVars, secIn, secOut, vIn, vOut, gIn>>

GeoNext ==
    \/ CallCalculateRegionBounds
    \/ CallCalculateConstellationBounds
    \/ CallInheritFactionIDs

GeoSpec == GeoInit /\ [][GeoNext]_vars

-----------------------------------------------------------------------------
(* One call of InheritFactionIDs on slices whose FactionID fields are      *)
(* pointers, followed by one write through one of the pointers.            *)

\* The value a later write stores.
OtherFaction == 500099

\* The cells, regions and systems before the call.  hasFaction[id] says
\* whether region id carries a faction; c[i] is the region system i names and
\* whether the system carries a faction of its own.  Every faction of the
\* input has a cell of its own.
CellInput(hasFaction, c) ==
    LET regionOwners == SelectSeq([id \in 1..MaxID |-> id], LAMBDA id : hasFaction[id])
        systemOwners == SelectSeq([i \in DOMAIN c |-> i], LAMBDA i : c[i][2])
    IN  [cells |-> [k \in DOMAIN regionOwners |-> 500000 + regionOwners[k]]
                   \o [k \in DOMAIN systemOwners |-> 500010],
         regions |-> [id \in 1..MaxID |->
                        [RegionID |-> id,
                         FactionID |-> IF hasFaction[id]
                                       THEN CHOOSE k \in DOMAIN regionOwners :
                                              regionOwners[k] = id
                                       ELSE NilCell]],
         systems |-> [i \in DOMAIN c |->
                        [SolarSystemID |-> i, RegionID |-> c[i][1],
                         FactionID |-> IF c[i][2]
                                       THEN Len(regionOwners)
                                            + CHOOSE k \in DOMAIN systemOwners :
                                                systemOwners[k] = i
                                       ELSE NilCell]]]

CellInputs ==
    { CellInput(hasFaction, c)
      : hasFaction \in [IDs -> BOOLEAN],
        c \in SystemChoices((1..(MaxID + 1)) \X BOOLEAN) }

CellInit ==
    /\ PipelineIdle
    /\ cfgVariant = "all"
    /\ gIn \in { <<x>> : x \in CellInputs }
    /\ gOut = <<>>
    /\ secIn = <<>> /\ secOut = <<>>
    /\ vIn = <<>> /\ vOut = <<>>

CallInheritFactionIDsCells ==
    /\ pc = "idle"
    /\ gIn # <<>>
    /\ gOut = <<>>
    /\ LET after == InheritFactionIDsCells(gIn[1].cells, gIn[1].systems, gIn[1].regions)
       IN  gOut' = <<[cells |-> after.cells, regions |-> gIn[1].regions,
                      systems |-> after.systems, written |-> <<>>]>>
    /\ UNCHANGED <<pipelineVars, secIn, secOut, vIn, vOut, gIn>>

\* *regions[i].FactionID = OtherFaction, after the call.
WriteRegionFaction ==
    /\ gOut # <<>>
    /\ gOut[1].written = <<>>
    /\ \E i \in DOMAIN gOut[1].regions :
         /\ gOut[1].regions[i].FactionID # NilCell
         /\ gOut' = <<[gOut[1] EXCEPT !.cells[gOut[1].regions[i].FactionID] = OtherFaction,
                                      !.written = <<"region", i>>]>>
    /\ UNCHANGED <<pipelineVars, secIn, secOut, vIn, vOut, gIn>>

\* *systems[i].FactionID = OtherFaction, after the call.
WriteSystemFaction ==
    /\ gOut # <<>>
    /\ gOut[1].written = <<>>
    /\ \E i \in DOMAIN gOut[1].systems :
         /\ gOut[1].systems[i].FactionID # NilCell
         /\ gOut' = <<[gOut[1] EXCEPT !.cells[gOut[1].systems[i].FactionID] = OtherFaction,
                                      !.written = <<"system", i>>]>>
    /\ UNCHANGED <<pipelineVars, secIn, secOut, vIn, vOut, gIn>>

CellNext ==
    \/ CallInheritFactionIDsCells
    \/ WriteRegionFaction
    \/ WriteSystemFaction

CellSpec == CellInit /\ [][CellNext]_vars

-----------------------------------------------------------------------------
(* The run on the SDE directory of the integration tests (createTestSDE):  *)
(* 3 regions, 3 constellations, 7 solar systems of which two are wormhole  *)
(* systems, 6 gate records that pair up to 3 connections, 7 types in 5     *)
(* groups.                                                                 *)

FixtureSystem(region, constellation, security) ==
    [RegionID |-> region, ConstellationID |-> constellation,
     Security |-> security, WormholeClassID |-> 0]

\* mapSolarSystems.yaml of the fixture, the wormhole classes left out.
FixtureSystems ==
    (30000142 :> FixtureSystem(10000002, 20000020, 9459))
    @@ (30000001 :> FixtureSystem(10000001, 20000001, 8576))
    @@ (30000144 :> FixtureSystem(10000002, 20000020, 9400))
    @@ (30000145 :> FixtureSystem(10000002, 20000020, 4000))
    @@ (30000146 :> FixtureSystem(10000002, 20000020, -7000))
    @@ (31000001 :> FixtureSystem(11000001, 21000001, -10000))
    @@ (31000002 :> FixtureSystem(11000001, 21000001, -10000))

\* The systems of the fixture that may carry a wormhole class: those of
\* negative security.
FixtureWormholeCandidates ==
    { id \in DOMAIN FixtureSystems : FixtureSystems[id].Security < 0 }

\* The system IDs of the fixture in ascending order.
FixtureSystemIDs ==
    <<30000001, 30000142, 30000144, 30000145, 30000146, 31000001, 31000002>>

\* mapStargates.yaml: six records, two for each of three connections that
\* chain four systems, starting at the k-th one (k = 2 in the fixture).
FixtureStargates(k) ==
    LET a == FixtureSystemIDs[k]
        b == FixtureSystemIDs[k + 1]
        c == FixtureSystemIDs[k + 2]
        d == FixtureSystemIDs[k + 3]
    IN  (50000001 :> [SolarSystemID |-> a, Destination |-> b])
        @@ (50000002 :> [SolarSystemID |-> b, Destination |-> a])
        @@ (50000003 :> [SolarSystemID |-> b, Destination |-> c])
        @@ (50000004 :> [SolarSystemID |-> c, Destination |-> b])
        @@ (50000005 :> [SolarSystemID |-> c, Destination |-> d])
        @@ (50000006 :> [SolarSystemID |-> d, Destination |-> c])

\* The directory of the fixture with wormhole classes 3 and 5 on the systems
\* lo < hi (31000001 and 31000002 in the fixture) and the gates chained from
\* the k-th system.
FixtureSDE(lo, hi, k) ==
    [Regions |-> [id \in {10000002, 10000001, 11000001} |-> [FactionID |-> 0]],
     Constellations |->
        (20000020 :> [RegionID |-> 10000002])
        @@ (20000001 :> [RegionID |-> 10000001])
        @@ (21000001 :> [RegionID |-> 11000001]),
     SolarSystems |->
        [id \in DOMAIN FixtureSystems |->
            [FixtureSystems[id] EXCEPT !.WormholeClassID =
                IF id = lo THEN 3 ELSE IF id = hi THEN 5 ELSE 0]],
     Stargates |-> FixtureStargates(k),
     Types |->
        (587 :> [GroupID |-> 25, Published |-> TRUE])
        @@ (588 :> [GroupID |-> 25, Published |-> TRUE])
        @@ (589 :> [GroupID |-> 25, Published |-> TRUE])
        @@ (625 :> [GroupID |-> 26, Published |-> TRUE])
        @@ (2456 :> [GroupID |-> 18, Published |-> TRUE])
        @@ (17738 :> [GroupID |-> 419, Published |-> TRUE])
        @@ (99999 :> [GroupID |-> 25, Published |-> FALSE]),
     Groups |->
        (25 :> [CategoryID |-> 6, Published |-> TRUE])
        @@ (26 :> [CategoryID |-> 6, Published |-> TRUE])
        @@ (18 :> [CategoryID |-> 7, Published |-> TRUE])
        @@ (419 :> [CategoryID |-> 6, Published |-> TRUE])
        @@ (999 :> [CategoryID |-> 6, Published |-> FALSE])]

FixtureInit ==
    /\ cfgVariant \in {"ships", "all"}
    /\ \E lo, hi \in FixtureWormholeCandidates, k \in 1..(Len(FixtureSystemIDs) - 3) :
         /\ lo < hi
         /\ sde = FixtureSDE(lo, hi, k)
    /\ pc = "parse"
    /\ parseResult = None
    /\ convertedData = None
    /\ validationResult = None
    /\ written = <<>>
    /\ copied = FALSE
    /\ runErr = ""
    /\ stages = <<>>
    /\ Idle

FixtureSpec == FixtureInit /\ [][Next]_vars

-----------------------------------------------------------------------------
(* What runConversion holds at each position.                              *)

ParseFailed == pc = "done" /\ runErr = "failed to parse SDE"

HasParseResult ==
    \/ pc \in {"transform", "validate", "report", "write", "passthrough"}
    \/ pc = "done" /\ ~ParseFailed

HasConvertedData ==
    \/ pc \in {"validate", "report", "write", "passthrough"}
    \/ pc = "done" /\ ~ParseFailed

HasValidationResult ==
    \/ pc \in {"report", "write", "passthrough"}
    \/ pc = "done" /\ ~ParseFailed

\* The gate records of the directory with two non-zero endpoints, and the
\* unordered pairs of systems they join.
ValidGates ==
    { g \in DOMAIN sde.Stargates :
        sde.Stargates[g].SolarSystemID # 0 /\ sde.Stargates[g].Destination # 0 }

JoinedPairs ==
    { {sde.Stargates[g].SolarSystemID, sde.Stargates[g].Destination} : g \in ValidGates }

Ends(jump) == {jump.FromSolarSystemID, jump.ToSolarSystemID}

-----------------------------------------------------------------------------
(* Claims.                                                                 *)

\* C1: ParseStargates returns exactly one edge for every distinct unordered
\* pair of systems joined by a gate record with two non-zero endpoints, and
\* no other edge: records A->B and B->A give one edge, and no unordered pair
\* occurs twice.
C1_OneEdgePerPair ==
    HasParseResult =>
        LET jumps == parseResult.SystemJumps
        IN  /\ \A u \in JoinedPairs :
                 Cardinality({ i \in DOMAIN jumps : Ends(jumps[i]) = u }) = 1
            /\ \A i \in DOMAIN jumps : Ends(jumps[i]) \in JoinedPairs
            /\ Len(jumps) = Cardinality(JoinedPairs)

\* Two records of opposite direction between two different systems have been
\* parsed into a single edge.
C1_Witness ==
    /\ HasParseResult
    /\ \E g, h \in DOMAIN sde.Stargates :
         /\ sde.Stargates[g].SolarSystemID # 0
         /\ sde.Stargates[g].SolarSystemID < sde.Stargates[g].Destination
         /\ sde.Stargates[h].SolarSystemID = sde.Stargates[g].Destination
         /\ sde.Stargates[h].Destination = sde.Stargates[g].SolarSystemID
    /\ Len(parseResult.SystemJumps) = 1

\* C2: every edge returned by ParseStargates and every edge of Transform's
\* SystemJumps has the smaller system ID in From and the larger in To, and each
\* gate record A->B with non-zero endpoints is present as (min(A,B), max(A,B))
\* in both, whichever way the record pointed.
C2_CanonicalOrientation ==
    /\ HasParseResult =>
         LET jumps == parseResult.SystemJumps
         IN  /\ \A i \in DOMAIN jumps :
                  jumps[i].FromSolarSystemID <= jumps[i].ToSolarSystemID
             /\ \A g \in ValidGates :
                  \E i \in DOMAIN jumps :
                    /\ jumps[i].FromSolarSystemID =
                         Min2(sde.Stargates[g].SolarSystemID, sde.Stargates[g].Destination)
                    /\ jumps[i].ToSolarSystemID =
                         Max2(sde.Stargates[g].SolarSystemID, sde.Stargates[g].Destination)
    /\ HasConvertedData =>
         LET jumps == convertedData.SystemJumps
         IN  /\ \A i \in DOMAIN jumps :
                  jumps[i].FromSolarSystemID <= jumps[i].ToSolarSystemID
             /\ \A g \in ValidGates :
                  \E i \in DOMAIN jumps :
                    /\ jumps[i].FromSolarSystemID =
                         Min2(sde.Stargates[g].SolarSystemID, sde.Stargates[g].Destination)
                    /\ jumps[i].ToSolarSystemID =
                         Max2(sde.Stargates[g].SolarSystemID, sde.Stargates[g].Destination)

\* A record pointing from the larger to the smaller system has gone through
\* Transform and come out with the smaller ID first.
C2_Witness ==
    /\ HasConvertedData
    /\ \E g \in ValidGates :
         /\ sde.Stargates[g].SolarSystemID > sde.Stargates[g].Destination
         /\ \E i \in DOMAIN convertedData.SystemJumps :
              /\ convertedData.SystemJumps[i].FromSolarSystemID
                   = sde.Stargates[g].Destination
              /\ convertedData.SystemJumps[i].ToSolarSystemID
                   = sde.Stargates[g].SolarSystemID

StrictlyAscending(keys) == \A i \in 1..(Len(keys) - 1) : keys[i] < keys[i + 1]

Keys(s, field) == [i \in DOMAIN s |-> s[i][field]]

\* C3: in every collection Transform returns, the keys of adjacent elements
\* strictly increase: RegionID, ConstellationID, SolarSystemID, TypeID,
\* GroupID, LocationID, and (From, To) lexicographically for the jumps.
C3_Sorted ==
    HasConvertedData =>
        /\ StrictlyAscending(Keys(convertedData.Universe.Regions,
                                  "RegionID"))
        /\ StrictlyAscending(Keys(convertedData.Universe.Constellations,
                                  "ConstellationID"))
        /\ StrictlyAscending(Keys(convertedData.Universe.SolarSystems,
                                  "SolarSystemID"))
        /\ StrictlyAscending(Keys(convertedData.Types, "TypeID"))
        /\ StrictlyAscending(Keys(convertedData.Groups, "GroupID"))
        /\ StrictlyAscending(Keys(convertedData.WormholeClasses,
                                  "LocationID"))
        /\ LET jumps == convertedData.SystemJumps
           IN  \A i \in 1..(Len(jumps) - 1) :
                 \/ jumps[i].FromSolarSystemID < jumps[i + 1].FromSolarSystemID
                 \/ /\ jumps[i].FromSolarSystemID = jumps[i + 1].FromSolarSystemID
                    /\ jumps[i].ToSolarSystemID < jumps[i + 1].ToSolarSystemID

\* Transform has returned two jumps that leave the same system, next to two
\* solar systems.
C3_Witness ==
    /\ HasConvertedData
    /\ Len(convertedData.Universe.SolarSystems) >= 2
    /\ Len(convertedData.SystemJumps) >= 2
    /\ convertedData.SystemJumps[1].FromSolarSystemID
         = convertedData.SystemJumps[2].FromSolarSystemID

\* C4: for every raw security value r with 0 < r < 0.05, GetTrueSecurity(r)
\* is 0.1.
C4_LowPositiveBand ==
    (secOut # <<>> /\ secIn[1] > 0 /\ 100 * secIn[1] < 5 * SecScale)
        => 10 * secOut[1] = SecScale

\* GetTrueSecurity has been called on 0.0001, the smallest positive raw value.
C4_Witness ==
    /\ secOut # <<>>
    /\ secIn[1] = 1

\* The rule of C5 on r, counted in hundredths: t = floor(r * 100) keeps its
\* tenths when its last digit is below 5 and is raised to the next tenth
\* otherwise.
C5_Rule(r) ==
    LET t == (100 * r) \div SecScale
        tenths == t \div 10
    IN  IF t - 10 * tenths < 5
        THEN tenths * (SecScale \div 10)
        ELSE (-((-t) \div 10)) * (SecScale \div 10)

\* C5: for every raw value r outside the open interval (0, 0.05),
\* GetTrueSecurity(r) is floor(truncated*10)/10 when truncated minus it is
\* below 0.05 and ceil(truncated*10)/10 otherwise, truncated being
\* floor(r*100)/100; and GetTrueSecurity(0.9459) = 0.9, GetTrueSecurity(0.04)
\* = 0.1, GetTrueSecurity(-1.0) = -1.0.
C5_GeneralRule ==
    secOut # <<>> =>
        /\ ~(secIn[1] > 0 /\ 100 * secIn[1] < 5 * SecScale)
             => secOut[1] = C5_Rule(secIn[1])
        /\ secIn[1] = 9459 => secOut[1] = 9000
        /\ secIn[1] = 400 => secOut[1] = 1000
        /\ secIn[1] = -10000 => secOut[1] = -10000

\* GetTrueSecurity has been called on 0.9459 and has returned 0.9.
C5_Witness ==
    /\ secOut = <<9000>>
    /\ secIn = <<9459>>

\* The system of the transformed collection that carries the ID, if any.
SystemsWithID(id) ==
    { s \in Range(convertedData.Universe.SolarSystems) : s.SolarSystemID = id }

\* What C6 expects on one side of an edge: the region and constellation of
\* the endpoint's system, zeros when no system has that ID.
C6_Side(id) ==
    IF SystemsWithID(id) = {}
    THEN <<0, 0>>
    ELSE LET s == CHOOSE x \in SystemsWithID(id) : TRUE
         IN  <<s.RegionID, s.ConstellationID>>

\* C6: transformSystemJumps emits every input edge, each side carrying the
\* Region ID and Constellation ID of the solar system with the endpoint's ID
\* when the transformed collection has one and zeros when it has not; nothing
\* is dropped or added, and Transform ends without an error.
C6_Enrichment ==
    (HasConvertedData /\ cfgVariant = "all") =>
        LET given == parseResult.SystemJumps
            out == convertedData.SystemJumps
        IN  /\ Len(out) = Len(given)
            /\ \A i \in DOMAIN given :
                 \E j \in DOMAIN out :
                   /\ out[j].FromSolarSystemID = given[i].FromSolarSystemID
                   /\ out[j].ToSolarSystemID = given[i].ToSolarSystemID
                   /\ <<out[j].FromRegionID, out[j].FromConstellationID>>
                        = C6_Side(given[i].FromSolarSystemID)
                   /\ <<out[j].ToRegionID, out[j].ToConstellationID>>
                        = C6_Side(given[i].ToSolarSystemID)
            /\ pc = "validate" => runErr = ""

\* Transform has emitted an edge whose From system exists and whose To system
\* does not.
C6_Witness ==
    /\ HasConvertedData
    /\ cfgVariant = "all"
    /\ \E j \in DOMAIN convertedData.SystemJumps :
         /\ SystemsWithID(convertedData.SystemJumps[j].FromSolarSystemID) # {}
         /\ SystemsWithID(convertedData.SystemJumps[j].ToSolarSystemID) = {}
         /\ convertedData.SystemJumps[j].FromRegionID # 0
         /\ convertedData.SystemJumps[j].ToRegionID = 0

\* The errors C7 expects for the data: one per empty foundational collection.
C7_Expected(data) ==
    (IF Len(data.Universe.SolarSystems) = 0 THEN {"No solar systems found"} ELSE {})
    \cup (IF Len(data.Universe.Regions) = 0 THEN {"No regions found"} ELSE {})
    \cup (IF Len(data.Universe.Constellations) = 0
          THEN {"No constellations found"} ELSE {})

\* C7: Validate reports an error for each of Regions, Constellations and
\* SolarSystems exactly when that collection is empty, once, and no other
\* error; IsValid() is true if and only if all three are non-empty.
C7_Errors ==
    HasValidationResult =>
        /\ Range(validationResult.Errors) = C7_Expected(convertedData)
        /\ Len(validationResult.Errors) = Cardinality(C7_Expected(convertedData))
        /\ IsValid(validationResult) <=>
             /\ Len(convertedData.Universe.Regions) > 0
             /\ Len(convertedData.Universe.Constellations) > 0
             /\ Len(convertedData.Universe.SolarSystems) > 0

\* Validate has run on data without regions but with constellations and
\* systems, and reported the one error.
C7_Witness ==
    /\ HasValidationResult
    /\ Len(convertedData.Universe.Regions) = 0
    /\ Len(convertedData.Universe.Constellations) > 0
    /\ Len(convertedData.Universe.SolarSystems) > 0
    /\ validationResult.Errors = <<"No regions found">>

\* The collections of a ValidationResult, the name each has in a warning, and
\* the minimum Validate expects of it.
C8_What(variant, c) ==
    CASE c = "SolarSystems" -> "Solar system"
      [] c = "Regions" -> "Region"
      [] c = "Constellations" -> "Constellation"
      [] c = "Types" -> IF variant = "ships" THEN "Ship type" ELSE "Type"
      [] c = "SystemJumps" -> "System jump"
      [] c = "Groups" -> "Group"
      [] c = "WormholeClasses" -> "Wormhole class"

C8_Minimum(variant, c) ==
    CASE c = "SolarSystems" -> 8000
      [] c = "Regions" -> 100
      [] c = "Constellations" -> 1000
      [] c = "Types" -> IF variant = "ships" THEN 400 ELSE 30000
      [] c = "SystemJumps" -> 10000

C8_Checked == {"SolarSystems", "Regions", "Constellations", "Types", "SystemJumps"}
C8_Unchecked == {"Groups", "WormholeClasses"}

C8_WarningsFor(v, variant, c) ==
    { i \in DOMAIN v.Warnings : v.Warnings[i].what = C8_What(variant, c) }

\* C8 as claimed: every one of the seven collections gets its warning exactly
\* when its count is below its expected minimum; a collection without any
\* record is below whatever minimum is expected of it.
C8_EveryCollectionWarns ==
    vOut # <<>> =>
        LET v == vOut[1]
            n == vIn[1]
        IN  /\ \A c \in C8_Checked :
                 C8_WarningsFor(v, cfgVariant, c) # {}
                    <=> n[c] < C8_Minimum(cfgVariant, c)
            /\ \A c \in C8_Unchecked :
                 n[c] = 0 => C8_WarningsFor(v, cfgVariant, c) # {}

\* C8, amended: for each of the five collections Validate compares (solar
\* systems, regions, constellations, types, system jumps) there is one
\* warning exactly when the count is below the minimum, listing the count and
\* the minimum; item groups and wormhole class locations are never compared
\* and never warned about; and a result whose three foundational counts are
\* not zero is valid whatever warnings it carries.
C8_Warnings ==
    vOut # <<>> =>
        LET v == vOut[1]
            n == vIn[1]
        IN  /\ \A c \in C8_Checked :
                 /\ C8_WarningsFor(v, cfgVariant, c) # {}
                      <=> n[c] < C8_Minimum(cfgVariant, c)
                 /\ \A i \in C8_WarningsFor(v, cfgVariant, c) :
                      /\ v.Warnings[i].count = n[c]
                      /\ v.Warnings[i].min = C8_Minimum(cfgVariant, c)
            /\ Len(v.Warnings)
                 = Cardinality({ c \in C8_Checked : n[c] < C8_Minimum(cfgVariant, c) })
            /\ (n.SolarSystems > 0 /\ n.Regions > 0 /\ n.Constellations > 0)
                 => IsValid(v)

\* Validate has run on data with 99 regions, 8000 systems and no item group:
\* it warns about the regions, not about the systems, and the result is valid.
C8_Witness ==
    /\ vOut # <<>>
    /\ vIn[1].Regions = 99
    /\ vIn[1].SolarSystems = 8000
    /\ vIn[1].Constellations = 1000
    /\ vIn[1].Groups = 0
    /\ C8_WarningsFor(vOut[1], cfgVariant, "Regions") # {}
    /\ C8_WarningsFor(vOut[1], cfgVariant, "SolarSystems") = {}
    /\ IsValid(vOut[1])

\* C9: WriteAll and CopyPassthroughFiles act only after Validate has returned
\* no error; with errors the run ends at once with an error and has written
\* and copied nothing; without errors, with or without warnings, the run goes
\* on to WriteAll, which writes or fails; and a run that has ended does
\* nothing more.
C9_HardStop ==
    [][ /\ pc # "done"
        /\ (written' # written \/ copied' # copied)
             => (HasValidationResult /\ Len(validationResult.Errors) = 0)
        /\ (pc = "report" /\ Len(validationResult.Errors) > 0)
             => (pc' = "done" /\ runErr' # "" /\ written' = <<>> /\ copied' = FALSE)
        /\ (pc = "report" /\ Len(validationResult.Errors) = 0)
             => (pc' = "write" /\ runErr' = "")
        /\ pc = "write"
             => (written' # <<>> \/ runErr' = "failed to write JSON output")
      ]_vars

\* A run has ended on a validation error, with warnings too, and no file.
C9_Witness ==
    /\ pc = "done"
    /\ runErr = "validation failed"
    /\ Len(validationResult.Errors) > 0
    /\ Len(validationResult.Warnings) > 0
    /\ written = <<>>
    /\ copied = FALSE

\* Every parent ID names an element of the parent collection.
C10_Resolves(regions, constellations, systems) ==
    /\ \A c \in Range(constellations) :
         \E r \in Range(regions) : r.RegionID = c.RegionID
    /\ \A s \in Range(systems) :
         /\ \E r \in Range(regions) : r.RegionID = s.RegionID
         /\ \E c \in Range(constellations) : c.ConstellationID = s.ConstellationID

\* C10 as claimed: in Transform's output every Constellation's Region ID is
\* the ID of an output Region and every SolarSystem's Region ID and
\* Constellation ID are IDs of an output Region and Constellation.
C10_AlwaysResolves ==
    HasConvertedData =>
        C10_Resolves(convertedData.Universe.Regions,
                     convertedData.Universe.Constellations,
                     convertedData.Universe.SolarSystems)

\* C10, amended: the parent IDs of Transform's output resolve exactly when
\* those of the parse result it was given do.
C10_ResolvesAsParsed ==
    HasConvertedData =>
        (C10_Resolves(convertedData.Universe.Regions,
                      convertedData.Universe.Constellations,
                      convertedData.Universe.SolarSystems)
         <=> C10_Resolves(parseResult.Regions, parseResult.Constellations,
                          parseResult.SolarSystems))

\* Transform has returned two regions, two constellations and a system whose
\* parent IDs all resolve.
C10_Witness ==
    /\ HasConvertedData
    /\ Len(convertedData.Universe.Regions) = 2
    /\ Len(convertedData.Universe.Constellations) = 2
    /\ Len(convertedData.Universe.SolarSystems) >= 1
    /\ C10_Resolves(convertedData.Universe.Regions,
                    convertedData.Universe.Constellations,
                    convertedData.Universe.SolarSystems)

-----------------------------------------------------------------------------

\* The IDs of the solar systems of Transform's output.
OutputSystemIDs ==
    { s.SolarSystemID : s \in Range(convertedData.Universe.SolarSystems) }

\* C11 as claimed: in Transform's output both endpoints of every jump are IDs
\* of solar systems of the output.
C11_EndpointsResolve ==
    HasConvertedData =>
        \A j \in Range(convertedData.SystemJumps) : Ends(j) \subseteq OutputSystemIDs

\* C11, amended: Transform keeps every connection the gate records name, and
\* an endpoint of an output jump is the ID of an output solar system exactly
\* when mapSolarSystems.yaml holds a system with that ID.
C11_ResolvesAsGiven ==
    HasConvertedData =>
        /\ \A j \in Range(convertedData.SystemJumps) :
             \A e \in Ends(j) :
                e \in OutputSystemIDs <=> e \in DOMAIN sde.SolarSystems
        /\ { Ends(j) : j \in Range(convertedData.SystemJumps) } = JoinedPairs

\* Transform has returned a jump with one endpoint among the output systems
\* and the other one not.
C11_Witness ==
    /\ HasConvertedData
    /\ \E j \in Range(convertedData.SystemJumps) :
         /\ j.FromSolarSystemID \in OutputSystemIDs
         /\ j.ToSolarSystemID \notin OutputSystemIDs

-----------------------------------------------------------------------------

MinOf(S) == CHOOSE m \in S : \A x \in S : m <= x
MaxOf(S) == CHOOSE m \in S : \A x \in S : m >= x

\* The box of parent is the smallest one that holds every system of kids.
C12_Box(parent, kids) ==
    /\ parent.XMin = MinOf({ s.X : s \in kids })
    /\ parent.XMax = MaxOf({ s.X : s \in kids })
    /\ parent.YMin = MinOf({ s.Y : s \in kids })
    /\ parent.YMax = MaxOf({ s.Y : s \in kids })
    /\ parent.ZMin = MinOf({ s.Z : s \in kids })
    /\ parent.ZMax = MaxOf({ s.Z : s \in kids })

\* The systems given to the call whose RegionID (ConstellationID) is id.
ChildrenOfRegion(id) == { s \in Range(gIn[1].systems) : s.RegionID = id }
ChildrenOfConstellation(id) ==
    { s \in Range(gIn[1].systems) : s.ConstellationID = id }

\* C12: after CalculateRegionBounds (CalculateConstellationBounds) every
\* region (constellation) with at least one child system has, on each axis,
\* Min the smallest and Max the largest coordinate of exactly its children;
\* with one child at (x, y, z) the box is min = max = (x, y, z).
C12_BoundingBoxes ==
    gOut # <<>> =>
        /\ gOut[1].op = "CalculateRegionBounds" =>
              \A r \in Range(gOut[1].regions) :
                 LET kids == ChildrenOfRegion(r.RegionID)
                 IN  /\ kids # {} => C12_Box(r, kids)
                     /\ \A s \in kids : kids = {s} =>
                            /\ r.XMin = s.X /\ r.XMax = s.X
                            /\ r.YMin = s.Y /\ r.YMax = s.Y
                            /\ r.ZMin = s.Z /\ r.ZMax = s.Z
        /\ gOut[1].op = "CalculateConstellationBounds" =>
              \A c \in Range(gOut[1].constellations) :
                 LET kids == ChildrenOfConstellation(c.ConstellationID)
                 IN  /\ kids # {} => C12_Box(c, kids)
                     /\ \A s \in kids : kids = {s} =>
                            /\ c.XMin = s.X /\ c.XMax = s.X
                            /\ c.YMin = s.Y /\ c.YMax = s.Y
                            /\ c.ZMin = s.Z /\ c.ZMax = s.Z

\* CalculateRegionBounds has been called on a region with two systems at
\* different places, all coordinates positive on one axis, and the region's
\* box spans both.
C12_Witness ==
    /\ gOut # <<>>
    /\ gOut[1].op = "CalculateRegionBounds"
    /\ \E r \in Range(gOut[1].regions) :
         /\ Cardinality(ChildrenOfRegion(r.RegionID)) = 2
         /\ r.XMin = 1 /\ r.XMax = 4
         /\ r.YMin < r.YMax /\ r.ZMin < r.ZMax

\* The fields of record a other than the bound fields agree with those of b.
SameButBounds(a, b) ==
    /\ DOMAIN a = DOMAIN b
    /\ \A f \in DOMAIN a \ BoundFields : a[f] = b[f]

\* C13: CalculateRegionBounds and CalculateConstellationBounds leave the six
\* bound fields of a parent without matching systems as they were, change no
\* other field of any parent, and change no system.
C13_Frame ==
    gOut # <<>> =>
        /\ gOut[1].op = "CalculateRegionBounds" =>
              /\ DOMAIN gOut[1].regions = DOMAIN gIn[1].regions
              /\ \A i \in DOMAIN gOut[1].regions :
                    /\ SameButBounds(gOut[1].regions[i], gIn[1].regions[i])
                    /\ ChildrenOfRegion(gIn[1].regions[i].RegionID) = {}
                          => gOut[1].regions[i] = gIn[1].regions[i]
              /\ gOut[1].systems = gIn[1].systems
              /\ gOut[1].constellations = gIn[1].constellations
        /\ gOut[1].op = "CalculateConstellationBounds" =>
              /\ DOMAIN gOut[1].constellations = DOMAIN gIn[1].constellations
              /\ \A i \in DOMAIN gOut[1].constellations :
                    /\ SameButBounds(gOut[1].constellations[i],
                                     gIn[1].constellations[i])
                    /\ ChildrenOfConstellation(gIn[1].constellations[i].ConstellationID) = {}
                          => gOut[1].constellations[i] = gIn[1].constellations[i]
              /\ gOut[1].systems = gIn[1].systems
              /\ gOut[1].regions = gIn[1].regions

\* CalculateRegionBounds has been called on a region that has a system and a
\* region that has none, both with bounds set before: the first one's box has
\* changed, the second one's has not.
C13_Witness ==
    /\ gOut # <<>>
    /\ gOut[1].op = "CalculateRegionBounds"
    /\ \E i, j \in DOMAIN gIn[1].regions :
         /\ gIn[1].regions[i].XMin # 0
         /\ ChildrenOfRegion(gIn[1].regions[i].RegionID) = {}
         /\ gOut[1].regions[i].XMin = gIn[1].regions[i].XMin
         /\ ChildrenOfRegion(gIn[1].regions[j].RegionID) # {}
         /\ gOut[1].regions[j].XMin # gIn[1].regions[j].XMin

\* The regions given to the call whose ID is id.
RegionsWithID(id) == { r \in Range(gIn[1].regions) : r.RegionID = id }

\* C14: after InheritFactionIDs a system that had no faction and whose
\* RegionID names a region of the slice with a faction carries that region's
\* faction; every other system keeps what it had (its own faction, or none
\* when its region is missing or has no faction); no other field changes.
C14_Inheritance ==
    (gOut # <<>> /\ gOut[1].op = "InheritFactionIDs") =>
        /\ DOMAIN gOut[1].systems = DOMAIN gIn[1].systems
        /\ \A i \in DOMAIN gIn[1].systems :
              LET before == gIn[1].systems[i]
                  after == gOut[1].systems[i]
                  donors == { r \in RegionsWithID(before.RegionID) : r.FactionID # <<>> }
              IN  /\ after = [before EXCEPT !.FactionID = after.FactionID]
                  /\ (before.FactionID = <<>> /\ donors # {})
                        => \E r \in donors : after.FactionID = r.FactionID
                  /\ (before.FactionID # <<>> \/ donors = {})
                        => after.FactionID = before.FactionID
        /\ gOut[1].regions = gIn[1].regions

\* InheritFactionIDs has been called on a system without a faction and a
\* system with one, both of a region that has a faction: the first now has
\* the region's, the second still its own.
C14_Witness ==
    /\ gOut # <<>>
    /\ gOut[1].op = "InheritFactionIDs"
    /\ \E i, j \in DOMAIN gIn[1].systems :
         /\ gIn[1].systems[i].FactionID = <<>>
         /\ gOut[1].systems[i].FactionID = <<500000 + gIn[1].systems[i].RegionID>>
         /\ gIn[1].systems[j].FactionID = <<500010>>
         /\ gOut[1].systems[j].FactionID = <<500010>>
         /\ gIn[1].systems[j].RegionID = gIn[1].systems[i].RegionID

-----------------------------------------------------------------------------

\* The groups of groups.yaml in the ship category, and the types of
\* types.yaml that belong to one of them.
ShipGroupIDs ==
    { g \in DOMAIN sde.Groups : sde.Groups[g].CategoryID = ShipCategoryID }

ShipTypeIDs == { ty \in DOMAIN sde.Types : sde.Types[ty].GroupID \in ShipGroupIDs }

\* C15: in the narrowing variant the item groups of the output are exactly
\* the input groups of category 6, each once, and the item types exactly the
\* input types whose group is one of them, each once with its group ID:
\* published or not, a type of a ship group is kept, and a type whose group
\* is of another category or does not exist is dropped.
C15_ShipFilter ==
    (HasConvertedData /\ cfgVariant = "ships") =>
        /\ { g.GroupID : g \in Range(convertedData.Groups) } = ShipGroupIDs
        /\ Len(convertedData.Groups) = Cardinality(ShipGroupIDs)
        /\ { ty.TypeID : ty \in Range(convertedData.Types) } = ShipTypeIDs
        /\ Len(convertedData.Types) = Cardinality(ShipTypeIDs)
        /\ \A ty \in Range(convertedData.Types) :
              ty.GroupID = sde.Types[ty.TypeID].GroupID
        /\ \A g \in Range(convertedData.Groups) :
              g.CategoryID = ShipCategoryID

\* The narrowing Transform has kept an unpublished type of a ship group and
\* dropped a type of a group of another category together with that group.
C15_Witness ==
    /\ HasConvertedData
    /\ cfgVariant = "ships"
    /\ \E kept, dropped \in DOMAIN sde.Types :
         /\ ~sde.Types[kept].Published
         /\ kept \in { ty.TypeID : ty \in Range(convertedData.Types) }
         /\ dropped \notin { ty.TypeID : ty \in Range(convertedData.Types) }
         /\ sde.Types[dropped].GroupID \in DOMAIN sde.Groups \ ShipGroupIDs
    /\ Len(convertedData.Groups) = 1

-----------------------------------------------------------------------------

\* C16: on 3 regions, 3 constellations, 7 solar systems two of which have a
\* wormhole class, and 6 gate records forming 3 reciprocal pairs, the parser
\* gives 3 jumps, Transform returns 3 jumps and 2 wormhole class locations,
\* and Validate reports no error and a warning for each collection that is
\* below its minimum: solar systems, regions, constellations, types, jumps.
C16_EndToEnd ==
    /\ HasParseResult => Len(parseResult.SystemJumps) = 3
    /\ HasConvertedData =>
          /\ Len(convertedData.Universe.Regions) = 3
          /\ Len(convertedData.Universe.Constellations) = 3
          /\ Len(convertedData.Universe.SolarSystems) = 7
          /\ Len(convertedData.SystemJumps) = 3
          /\ Len(convertedData.WormholeClasses) = 2
    /\ HasValidationResult =>
          /\ Len(validationResult.Errors) = 0
          /\ \A c \in C8_Checked :
                \E i \in C8_WarningsFor(validationResult, cfgVariant, c) :
                   validationResult.Warnings[i].min = C8_Minimum(cfgVariant, c)
          /\ Len(validationResult.Warnings) = Cardinality(C8_Checked)

\* The run on the fixture itself (wormhole systems 31000001 and 31000002,
\* gates from Jita on) has been validated and has written its files.
C16_Witness ==
    /\ sde = FixtureSDE(31000001, 31000002, 2)
    /\ pc = "done"
    /\ runErr = ""
    /\ Len(written) = Len(OutputFiles)
    /\ Len(convertedData.SystemJumps) = 3
    /\ Len(convertedData.WormholeClasses) = 2
    /\ Len(validationResult.Errors) = 0

-----------------------------------------------------------------------------

\* The place of a stage in the sequence Security Classifier, Geometry
\* Aggregator, Faction Inheritance, Filter, Dedup/Enrich, Sort, Validate.
C17_Rank(stage) ==
    CASE stage = "Security" -> 1
      [] stage = "Geometry" -> 2
      [] stage = "Faction" -> 3
      [] stage = "Filter" -> 4
      [] stage \in {"Dedup", "Enrich"} -> 5
      [] stage = "Sort" -> 6
      [] stage = "Validate" -> 7

\* The positions of the record of stages that hold the given stage.
StagePositions(stage) == { i \in DOMAIN stages : stages[i].stage = stage }

-----------------------------------------------------------------------------

\* The positions of a list of systems that hold the system with the given ID.
SystemPositions(systems, id) ==
    { i \in DOMAIN systems : systems[i].SolarSystemID = id }

\* C18: security is derived exactly once.  When Transform returns, the
\* output holds exactly one system for every parsed system and no other, the
\* Security of each is GetTrueSecurity of the Security of the parsed system
\* with the same ID, and the parsed records are what they were before.
C18_SecurityOnce ==
    [][pc = "transform" =>
         LET input == parseResult.SolarSystems
             output == convertedData'.Universe.SolarSystems
         IN  /\ parseResult' = parseResult
             /\ Len(output) = Len(input)
             /\ \A i \in DOMAIN input :
                   /\ Cardinality(SystemPositions(output, input[i].SolarSystemID)) = 1
                   /\ \A j \in SystemPositions(output, input[i].SolarSystemID) :
                         output[j].Security = GetTrueSecurity(input[i].Security)
             /\ \A j \in DOMAIN output :
                   SystemPositions(input, output[j].SolarSystemID) # {}]_vars

\* Transform has returned for two parsed systems, one of them with a raw
\* security that its classification changes: the output system carries the
\* classified value and the parsed record still carries the raw one.
C18_Witness ==
    /\ pc = "validate"
    /\ Len(parseResult.SolarSystems) >= 2
    /\ \E i \in DOMAIN parseResult.SolarSystems :
        \E j \in DOMAIN convertedData.Universe.SolarSystems :
          /\ convertedData.Universe.SolarSystems[j].SolarSystemID
                = parseResult.SolarSystems[i].SolarSystemID
          /\ parseResult.SolarSystems[i].Security = sde.SolarSystems[parseResult.SolarSystems[i].SolarSystemID].Security
          /\ GetTrueSecurity(parseResult.SolarSystems[i].Security) # parseResult.SolarSystems[i].Security
          /\ convertedData.Universe.SolarSystems[j].Security
                = GetTrueSecurity(parseResult.SolarSystems[i].Security)

-----------------------------------------------------------------------------

\* The collections a ValidationResult counts.
C19_Counted ==
    {"SolarSystems", "Regions", "Constellations", "Types", "Groups",
     "SystemJumps", "WormholeClasses"}

\* The collection of the dataset a count of the ValidationResult stands for.
C19_Collection(data, c) ==
    IF c \in {"SolarSystems", "Regions", "Constellations"}
    THEN data.Universe[c] ELSE data[c]

-----------------------------------------------------------------------------

\* The gate records of the directory with a zero endpoint, and the records
\* left when they are taken out of the file.
MalformedGates == DOMAIN sde.Stargates \ ValidGates

WellFormedStargates == [g \in ValidGates |-> sde.Stargates[g]]

\* C20: malformed gate records are skipped silently.  For the gate file a
\* run is about to parse, with or without records that have a zero endpoint,
\* ParseStargates returns a list; what it can return is what it can return
\* for the file without those records, so they add no edge and take none
\* away; and no returned jump has a zero endpoint.  When the run has parsed,
\* its jumps are such a list.
C20_MalformedSkipped ==
    /\ pc = "parse" =>
          /\ ParseStargates(sde.Stargates) # {}
          /\ ParseStargates(sde.Stargates) = ParseStargates(WellFormedStargates)
          /\ \A jumps \in ParseStargates(sde.Stargates) :
                /\ \A i \in DOMAIN jumps : 0 \notin Ends(jumps[i])
                /\ { Ends(jumps[i]) : i \in DOMAIN jumps } = JoinedPairs
    /\ pc = "transform" =>
          /\ runErr = ""
          /\ parseResult.SystemJumps \in ParseStargates(WellFormedStargates)

\* A directory with a malformed gate record and a well-formed one has been
\* parsed without error: the jumps are the one edge of the well-formed record.
C20_Witness ==
    /\ pc = "transform"
    /\ runErr = ""
    /\ MalformedGates # {}
    /\ ValidGates # {}
    /\ Len(parseResult.SystemJumps) = 1
    /\ Ends(parseResult.SystemJumps[1]) \in JoinedPairs

-----------------------------------------------------------------------------

\* The positions of a list of wormhole class records that name the location.
ClassPositions(classes, id) ==
    { i \in DOMAIN classes : classes[i].LocationID = id }

-----------------------------------------------------------------------------

\* The positions of a list of records whose field key holds the given ID.
PositionsOf(list, key, id) == { i \in DOMAIN list : list[i][key] = id }

-----------------------------------------------------------------------------

\* The same records as the list s, presented in every order.
Reorderings(s) == { [i \in DOMAIN o |-> s[o[i]]] : o \in Orders(DOMAIN s) }

\* The parse results that hold the records of pr, each slice in any order.
\* Types and Groups are maps: their order of iteration is chosen by
\* Transform itself.
Reordered(pr) ==
    { [pr EXCEPT !.Regions = regions, !.Constellations = constellations,
                 !.SolarSystems = systems, !.WormholeClasses = classes,
                 !.SystemJumps = jumps]
      : regions \in Reorderings(pr.Regions),
        constellations \in Reorderings(pr.Constellations),
        systems \in Reorderings(pr.SolarSystems),
        classes \in Reorderings(pr.WormholeClasses),
        jumps \in Reorderings(pr.SystemJumps) }

\* C23: determinism of output order.  When Transform has returned, the
\* dataset it returned is the only one it can return for the parsed records,
\* in whatever order the slices present them and in whatever order the maps
\* are ranged over.
C23_Deterministic ==
    pc = "validate" =>
        \A pr \in Reordered(parseResult) :
            Transform(cfgVariant, pr) = {convertedData}

\* Transform has returned for two systems and two jumps, which another run
\* could have presented in the other order.
C23_Witness ==
    /\ pc = "validate"
    /\ cfgVariant = "all"
    /\ Len(convertedData.Universe.SolarSystems) >= 2
    /\ Len(convertedData.SystemJumps) >= 2
    /\ Cardinality(Reordered(parseResult)) >= 4

-----------------------------------------------------------------------------

\* The raw value of a call that went through step 2 of the classifier: the
\* call has returned and the value is outside the low positive band.
C24_Truncated ==
    /\ secOut # <<>>
    /\ ~(secIn[1] > 0 /\ secIn[1] < 5 * Hundredth)

Abs(x) == IF x < 0 THEN -x ELSE x

-----------------------------------------------------------------------------

\* C25: bounding boxes are order-independent.  When CalculateRegionBounds
\* or CalculateConstellationBounds has returned, the parents it left are the
\* parents it leaves for every other order of the same systems.
C25_OrderIndependent ==
    gOut # <<>> =>
        /\ gOut[1].op = "CalculateRegionBounds" =>
              \A systems \in Reorderings(gIn[1].systems) :
                  CalculateRegionBounds(gIn[1].regions, systems) = gOut[1].regions
        /\ gOut[1].op = "CalculateConstellationBounds" =>
              \A systems \in Reorderings(gIn[1].systems) :
                  CalculateConstellationBounds(gIn[1].constellations, systems)
                    = gOut[1].constellations

\* CalculateRegionBounds has returned for two systems of one region that lie
\* at different points: the region spans both in every direction.
C25_Witness ==
    /\ gOut # <<>>
    /\ gOut[1].op = "CalculateRegionBounds"
    /\ Len(gIn[1].systems) = 2
    /\ gIn[1].systems[1].RegionID = gIn[1].systems[2].RegionID
    /\ \E i \in DOMAIN gOut[1].regions :
         /\ gOut[1].regions[i].RegionID = gIn[1].systems[1].RegionID
         /\ gOut[1].regions[i].XMin < gOut[1].regions[i].XMax
         /\ gOut[1].regions[i].YMin < gOut[1].regions[i].YMax
         /\ gOut[1].regions[i].ZMin < gOut[1].regions[i].ZMax
         /\ gOut[1].regions[i].XMin = gIn[1].systems[2].X

-----------------------------------------------------------------------------

\* The faction a pointer gives when read: none for the nil pointer.
FactionAt(g, cell) == IF cell = NilCell THEN <<>> ELSE <<g.cells[cell]>>

\* The systems of the call that had no faction and have one after it.
C26_Heirs ==
    { i \in DOMAIN gIn[1].systems :
        gIn[1].systems[i].FactionID = NilCell /\ gOut[1].systems[i].FactionID # NilCell }

\* After the call, the cell of a system that inherited is the cell of no
\* region and of no other system, and until something is written it holds
\* the faction of the system's region.
C26_OwnCell ==
    gOut # <<>> =>
        \A i \in C26_Heirs :
            /\ \A r \in DOMAIN gOut[1].regions :
                  gOut[1].regions[r].FactionID # gOut[1].systems[i].FactionID
            /\ \A j \in DOMAIN gOut[1].systems :
                  j # i => gOut[1].systems[j].FactionID # gOut[1].systems[i].FactionID
            /\ gOut[1].written = <<>> =>
                  \E r \in DOMAIN gIn[1].regions :
                     /\ gIn[1].regions[r].RegionID = gIn[1].systems[i].RegionID
                     /\ FactionAt(gOut[1], gOut[1].systems[i].FactionID)
                          = FactionAt(gIn[1], gIn[1].regions[r].FactionID)

\* A write through the pointer of one region or system changes the faction
\* read through that pointer and through no other.
C26_WriteStaysLocal ==
    (gOut # <<>> /\ gOut' # gOut) =>
        /\ \A r \in DOMAIN gOut[1].regions :
              gOut'[1].written # <<"region", r>> =>
                  FactionAt(gOut'[1], gOut'[1].regions[r].FactionID)
                    = FactionAt(gOut[1], gOut[1].regions[r].FactionID)
        /\ \A i \in DOMAIN gOut[1].systems :
              gOut'[1].written # <<"system", i>> =>
                  FactionAt(gOut'[1], gOut'[1].systems[i].FactionID)
                    = FactionAt(gOut[1], gOut[1].systems[i].FactionID)

\* C26: the faction copy is independent.  A system that inherits its
\* region's faction holds it in a cell of its own, distinct from the region's
\* cell and from every other system's, so that a later write to the region's
\* faction leaves the system's as it was and a write to the system's leaves
\* the region's and every other system's as they were.
C26_IndependentCopy == []C26_OwnCell /\ [][C26_WriteStaysLocal]_vars

\* Two systems inherited the faction of the same region and the region's
\* faction was written afterwards: both systems still hold the old faction.
C26_Witness ==
    /\ gOut # <<>>
    /\ \E r \in DOMAIN gOut[1].regions :
         /\ gOut[1].written = <<"region", r>>
         /\ FactionAt(gOut[1], gOut[1].regions[r].FactionID) = <<OtherFaction>>
         /\ \E i, j \in C26_Heirs :
              /\ i # j
              /\ gOut[1].systems[i].RegionID = gOut[1].regions[r].RegionID
              /\ gOut[1].systems[j].RegionID = gOut[1].regions[r].RegionID
              /\ FactionAt(gOut[1], gOut[1].systems[i].FactionID)
                   = <<500000 + gOut[1].regions[r].RegionID>>
              /\ FactionAt(gOut[1], gOut[1].systems[j].FactionID)
                   = <<500000 + gOut[1].regions[r].RegionID>>

-----------------------------------------------------------------------------

\* The error Validate reports for an empty foundational collection.
C27_Error(c) ==
    CASE c = "SolarSystems" -> "No solar systems found"
      [] c = "Regions" -> "No regions found"
      [] c = "Constellations" -> "No constellations found"

C27_Foundational == {"SolarSystems", "Regions", "Constellations"}

\* The counts n with every collection but c at a count that passes every
\* check, so that of all checks only those of c can fire.
C27_Alone(n, c) ==
    [d \in DOMAIN n |->
        IF d = c THEN n[c]
        ELSE IF d \in C8_Checked THEN C8_Minimum(cfgVariant, d) ELSE 1]

\* C27: validation does not short-circuit.  Whether the result carries the
\* warning or the error of a collection is what it would be if the check of
\* that collection were the only one to fire; so the warnings are as many as
\* the collections below their minimum and the errors as many as the empty
\* foundational collections, and a dataset with nothing in it gets all five
\* warnings and all three errors.
C27_NoShortCircuit ==
    vOut # <<>> =>
        LET v == vOut[1]
            n == vIn[1]
        IN  /\ \A c \in C8_Checked :
                  LET alone == ValidateCounts(cfgVariant, C27_Alone(n, c))
                  IN  /\ (C8_WarningsFor(v, cfgVariant, c) # {})
                          <=> (C8_WarningsFor(alone, cfgVariant, c) # {})
                      /\ c \in C27_Foundational =>
                            ((C27_Error(c) \in Range(v.Errors))
                               <=> (C27_Error(c) \in Range(alone.Errors)))
            /\ Len(v.Warnings)
                 = Cardinality({ c \in C8_Checked : n[c] < C8_Minimum(cfgVariant, c) })
            /\ Len(v.Errors) = Cardinality({ c \in C27_Foundational : n[c] = 0 })
            /\ (\A c \in DOMAIN n : n[c] = 0)
                 => Len(v.Warnings) = 5 /\ Len(v.Errors) = 3

\* Validate has run on a dataset with nothing in it: the result carries five
\* warnings and three errors.
C27_Witness ==
    /\ vOut # <<>>
    /\ \A c \in DOMAIN vIn[1] : vIn[1][c] = 0
    /\ Len(vOut[1].Warnings) = 5
    /\ Len(vOut[1].Errors) = 3
    /\ vOut[1].Errors[1] = "No solar systems found"
    /\ vOut[1].Errors[3] = "No constellations found"

-----------------------------------------------------------------------------

\* The raw values from -1.0 to 1.0.
C28_InRange(r) == -SecScale <= r /\ r <= SecScale

\* Raw values above r to compare with: the next value of the grid, and the
\* values a hundredth, a twentieth and a tenth above.
C28_Above(r) ==
    { r2 \in {r + 1, r + Hundredth, r + 5 * Hundredth, r + Tenth} : C28_InRange(r2) }

\* C28: the security classifier is monotone.  For a raw value from -1.0 to
\* 1.0 the result is not above the result of any larger raw value of the
\* range (checked against the next raw value, which by transitivity covers
\* all larger ones, and against some further ones), it is a multiple of 0.1,
\* and it differs from the raw value by less than 0.1.
C28_Monotone ==
    (secOut # <<>> /\ C28_InRange(secIn[1])) =>
        /\ \A r2 \in C28_Above(secIn[1]) : secOut[1] <= GetTrueSecurity(r2)
        /\ secOut[1] % Tenth = 0
        /\ Abs(secOut[1] - secIn[1]) < Tenth

\* GetTrueSecurity has been called on 0.1499 and has returned 0.1, where the
\* next raw value, 0.15, gives 0.2.
C28_Witness ==
    /\ secIn = <<1499>>
    /\ secOut = <<1000>>
    /\ GetTrueSecurity(1500) = 2000

-----------------------------------------------------------------------------

\* C29: the security classifier is idempotent on its own outputs.  For a raw
\* value from -1.0 to 1.0, applying GetTrueSecurity to the result of the call
\* gives that result again; the result lies in the range itself.
C29_Idempotent ==
    (secOut # <<>> /\ C28_InRange(secIn[1])) =>
        /\ GetTrueSecurity(secOut[1]) = secOut[1]
        /\ C28_InRange(secOut[1])

\* GetTrueSecurity has been called on 0.03, of the low positive band, and has
\* returned 0.1, which the general rule maps to 0.1 again.
C29_Witness ==
    /\ secIn = <<300>>
    /\ secOut = <<1000>>
    /\ ~(secOut[1] > 0 /\ secOut[1] < 5 * Hundredth)
    /\ GetTrueSecurity(1000) = 1000

-----------------------------------------------------------------------------

\* C30: every validation error is accompanied by a warning.  A result that
\* carries the error of an empty foundational collection carries the
\* below-minimum warning of that collection, with count 0; so a result with
\* an error has a warning; and no result has more than 3 errors or more than
\* 5 warnings.
C30_ErrorsHaveWarnings ==
    vOut # <<>> =>
        LET v == vOut[1]
        IN  /\ \A c \in C27_Foundational :
                  C27_Error(c) \in Range(v.Errors) =>
                      \E i \in C8_WarningsFor(v, cfgVariant, c) : v.Warnings[i].count = 0
            /\ Len(v.Errors) > 0 => Len(v.Warnings) > 0
            /\ Len(v.Errors) <= 3
            /\ Len(v.Warnings) <= 5

\* Validate has run on a dataset whose only shortcoming is that it has no
\* region: the result carries the error and the warning of the regions and
\* nothing else.
C30_Witness ==
    /\ vOut # <<>>
    /\ vIn[1].Regions = 0
    /\ vOut[1].Errors = <<"No regions found">>
    /\ Len(vOut[1].Warnings) = 1
    /\ vOut[1].Warnings[1].what = "Region"
    /\ vOut[1].Warnings[1].count = 0

====
